---- MODULE Spec2Model ----
(***************************************************************************)
(* Model of the aggregation and classification engine of DBoard            *)
(* (src/Scripts/prepare_dashboard_data.py): the warehouse classifier, the  *)
(* period filter, the sales aggregator and the chart dataset builder, and  *)
(* of the runner of the three scripts (src/Scripts/run_all.py).            *)
(*                                                                         *)
(* Text the code inspects character by character (warehouse names, cluster *)
(* names, keywords) is a sequence of Unicode code points, so that lower(), *)
(* the substring test and sorted() are computed as Python computes them.   *)
(* Keys the code only compares for equality (the warehouse, region and     *)
(* article of an order) are strings.                                       *)
(***************************************************************************)
EXTENDS Integers, Sequences, FiniteSets, TLC

VARIABLES
  pc,            \* "start" before the operation under study ran, "done" after
  in_mp,         \* mp_type: "wb" or "ozon"
  in_warehouse,  \* get_warehouse_cluster: warehouse_name
  out_cluster,   \* get_warehouse_cluster: the returned cluster name
  in_sales,      \* aggregate_sales_data: sales_list
  out_agg,       \* aggregate_sales_data: the returned dict
  in_stocks_wp,  \* prepare: stocks_warehouse_products of the raw data
  in_articles,   \* prepare: all_articles of the raw data
  out_chart,     \* prepare: chart_data (None when it is not built)
  in_today,      \* prepare: date.today(), as a day ordinal
  in_orders,     \* prepare: raw_orders
  out_periods,   \* prepare: filtered_sales of each period key
  in_article,    \* get_article_color: article
  in_salts,      \* the hash salt of each of two interpreter processes
  out_colors,    \* get_article_color: the colors returned, call by call
  fs,            \* Executions/: the state of wb_raw_data.json, ozon_raw_data.json
  in_now,        \* the clock prepare reads: datetime.now() and date.today()
  salt,          \* the hash salt of the interpreter process of prepare
  out_file,      \* dashboard_data.json: the document, None while not written
  runs,          \* the outcome of every run of prepare so far, oldest first
  subprocesses,  \* run_all: the calls of subprocess.run so far, oldest first
  results,       \* run_all: main's dict results, script name -> bool
  exit_status    \* run_all: None while it runs, [code |-> n] after sys.exit(n)

vars ==
  <<pc, in_mp, in_warehouse, out_cluster, in_sales, out_agg,
    in_stocks_wp, in_articles, out_chart, in_today, in_orders, out_periods,
    in_article, in_salts, out_colors, fs, in_now, salt, out_file, runs,
    subprocesses, results, exit_status>>

clusterVars ==
  <<in_warehouse, out_cluster>>

aggVars ==
  <<in_sales, out_agg>>

chartVars ==
  <<in_stocks_wp, in_articles, out_chart>>

periodVars ==
  <<in_today, in_orders, out_periods>>

colorVars ==
  <<in_article, in_salts, out_colors>>

prepareVars ==
  <<fs, in_now, out_file, runs>>

runVars ==
  <<subprocesses, results, exit_status>>

\* Python's None: a value of its own, distinct from every text, list and dict
None ==
  [none |-> TRUE]

MarketplaceTypes ==
  {"wb", "ozon"}

\* an exception that leaves the function: what a call yields instead of a value
Raise(exception) ==
  [raise |-> exception]

\* the call ended with an exception
Raised(result) ==
  "raise" \in DOMAIN result

(***************************************************************************)
(* Bounds of the model.                                                    *)
(***************************************************************************)
\* warehouse names given to the classifier are 1..MaxWords words
MaxWords ==
  2

\* short order lists have 0..MaxSales records drawn from WbItems / OzonItems
MaxSales ==
  3

\* long order lists, one distinct warehouse, region and article per record,
\* have MaxLong-2..MaxLong records: up to, at and beyond the top-15 cut
MaxLong ==
  17

\* raw_orders has 0..MaxOrders records
MaxOrders ==
  2

\* order lists and stock lists of records with absent fields have
\* 1..MaxSparse records
MaxSparse ==
  2

\* prepare is run up to MaxRuns times, each time in a process of its own
MaxRuns ==
  2

\* stocks_warehouse_products has 0..MaxWarehouses warehouses
MaxWarehouses ==
  3

(***************************************************************************)
(* Classifier: WB_CLUSTERS, OZON_CLUSTERS, get_warehouse_cluster.          *)
(* A dict literal keeps its keys in the declared order, so a table is the  *)
(* sequence of its (cluster name, keywords) items.                         *)
(***************************************************************************)
WB_CLUSTERS ==
  <<
    \* 'Центральный'
    [name |-> <<1062, 1077, 1085, 1090, 1088, 1072, 1083, 1100, 1085, 1099, 1081>>,
     keywords |-> <<
       <<1087, 1091, 1096, 1082, 1080, 1085, 1086>>,  \* 'пушкино'
       <<1074, 1105, 1096, 1082, 1080>>,  \* 'вёшки'
       <<1074, 1077, 1096, 1082, 1080>>,  \* 'вешки'
       <<1080, 1074, 1072, 1085, 1086, 1074, 1086>>,  \* 'иваново'
       <<1087, 1086, 1076, 1086, 1083, 1100, 1089, 1082>>,  \* 'подольск'
       <<1088, 1072, 1076, 1091, 1084, 1083, 1103>>,  \* 'радумля'
       <<1086, 1073, 1091, 1093, 1086, 1074, 1086>>,  \* 'обухово'
       <<1095, 1072, 1096, 1085, 1080, 1082, 1086, 1074, 1086>>,  \* 'чашниково'
       <<1074, 1086, 1088, 1086, 1085, 1077, 1078>>,  \* 'воронеж'
       <<1080, 1089, 1090, 1088, 1072>>,  \* 'истра'
       <<1082, 1086, 1083, 1077, 1076, 1080, 1085, 1086>>,  \* 'коледино'
       <<1076, 1086, 1084, 1086, 1076, 1077, 1076, 1086, 1074, 1086>>,  \* 'домодедово'
       <<1085, 1080, 1082, 1086, 1083, 1100, 1089, 1082, 1086, 1077>>,  \* 'никольское'
       <<1090, 1074, 1077, 1088, 1100>>,  \* 'тверь'
       <<1075, 1086, 1083, 1080, 1094, 1099, 1085, 1086>>,  \* 'голицыно'
       <<1089, 1086, 1092, 1100, 1080, 1085, 1086>>,  \* 'софьино'
       <<1103, 1088, 1086, 1089, 1083, 1072, 1074, 1083, 1100>>,  \* 'ярославль'
       <<1094, 1080, 1092, 1088, 1086, 1074, 1086, 1081>>,  \* 'цифровой'
       <<1088, 1103, 1079, 1072, 1085, 1100>>,  \* 'рязань'
       <<1090, 1102, 1096, 1077, 1074, 1089, 1082, 1086, 1077>>,  \* 'тюшевское'
       <<1089, 1072, 1073, 1091, 1088, 1086, 1074, 1086>>,  \* 'сабурово'
       <<1074, 1083, 1072, 1076, 1080, 1084, 1080, 1088>>,  \* 'владимир'
       <<1090, 1091, 1083, 1072>>,  \* 'тула'
       <<1082, 1086, 1090, 1086, 1074, 1089, 1082>>,  \* 'котовск'
       <<1101, 1083, 1077, 1082, 1090, 1088, 1086, 1089, 1090, 1072, 1083, 1100>>,  \* 'электросталь'
       <<1073, 1077, 1083, 1072, 1103, 32, 1076, 1072, 1095, 1072>>,  \* 'белая дача'
       <<1097, 1077, 1088, 1073, 1080, 1085, 1082, 1072>>,  \* 'щербинка'
       <<1095, 1077, 1093, 1086, 1074>>  \* 'чехов'
     >>],
    \* 'Северо-Западный'
    [name |-> <<1057, 1077, 1074, 1077, 1088, 1086, 45, 1047, 1072, 1087, 1072, 1076, 1085, 1099, 1081>>,
     keywords |-> <<
       <<1074, 1086, 1083, 1086, 1075, 1076, 1072>>,  \* 'вологда'
       <<1096, 1091, 1096, 1072, 1088, 1099>>,  \* 'шушары'
       <<1082, 1088, 1072, 1089, 1085, 1099, 1081, 32, 1073, 1086, 1088>>,  \* 'красный бор'
       <<1089, 1072, 1085, 1082, 1090, 45, 1087, 1077, 1090, 1077, 1088, 1073, 1091, 1088, 1075>>,  \* 'санкт-петербург'
       <<1089, 1087, 1073>>,  \* 'спб'
       <<1091, 1090, 1082, 1080, 1085, 1072>>  \* 'уткина'
     >>],
    \* 'Приволжский'
    [name |-> <<1055, 1088, 1080, 1074, 1086, 1083, 1078, 1089, 1082, 1080, 1081>>,
     keywords |-> <<
       <<1080, 1078, 1077, 1074, 1089, 1082>>,  \* 'ижевск'
       <<1082, 1091, 1079, 1085, 1077, 1094, 1082>>,  \* 'кузнецк'
       <<1087, 1077, 1085, 1079, 1072>>,  \* 'пенза'
       <<1089, 1072, 1084, 1072, 1088, 1072>>,  \* 'самара'
       <<1085, 1086, 1074, 1086, 1089, 1077, 1084, 1077, 1081, 1082, 1080, 1085, 1086>>,  \* 'новосемейкино'
       <<1089, 1072, 1088, 1072, 1087, 1091, 1083>>,  \* 'сарапул'
       <<1082, 1072, 1079, 1072, 1085, 1100>>  \* 'казань'
     >>],
    \* 'Уральский'
    [name |-> <<1059, 1088, 1072, 1083, 1100, 1089, 1082, 1080, 1081>>,
     keywords |-> <<
       <<1085, 1080, 1078, 1085, 1080, 1081, 32, 1090, 1072, 1075, 1080, 1083>>,  \* 'нижний тагил'
       <<1095, 1077, 1083, 1103, 1073, 1080, 1085, 1089, 1082>>,  \* 'челябинск'
       <<1077, 1082, 1072, 1090, 1077, 1088, 1080, 1085, 1073, 1091, 1088, 1075>>  \* 'екатеринбург'
     >>],
    \* 'Южный + Северо-Кавказский'
    [name |-> <<1070, 1078, 1085, 1099, 1081, 32, 43, 32, 1057, 1077, 1074, 1077, 1088, 1086, 45, 1050, 1072, 1074, 1082, 1072, 1079, 1089, 1082, 1080, 1081>>,
     keywords |-> <<
       <<1082, 1088, 1099, 1083, 1086, 1074, 1089, 1082, 1072, 1103>>,  \* 'крыловская'
       <<1082, 1088, 1072, 1089, 1085, 1086, 1076, 1072, 1088>>,  \* 'краснодар'
       <<1074, 1086, 1083, 1075, 1086, 1075, 1088, 1072, 1076>>,  \* 'волгоград'
       <<1085, 1077, 1074, 1080, 1085, 1085, 1086, 1084, 1099, 1089, 1089, 1082>>,  \* 'невинномысск'
       <<1090, 1080, 1093, 1086, 1088, 1077, 1094, 1082, 1072, 1103>>  \* 'тихорецкая'
     >>],
    \* 'Дальневосточный + Сибирский'
    [name |-> <<1044, 1072, 1083, 1100, 1085, 1077, 1074, 1086, 1089, 1090, 1086, 1095, 1085, 1099, 1081, 32, 43, 32, 1057, 1080, 1073, 1080, 1088, 1089, 1082, 1080, 1081>>,
     keywords |-> <<
       <<1093, 1072, 1073, 1072, 1088, 1086, 1074, 1089, 1082>>,  \* 'хабаровск'
       <<1073, 1072, 1088, 1085, 1072, 1091, 1083>>,  \* 'барнаул'
       <<1074, 1083, 1072, 1076, 1080, 1074, 1086, 1089, 1090, 1086, 1082>>,  \* 'владивосток'
       <<1102, 1088, 1075, 1072>>,  \* 'юрга'
       <<1085, 1086, 1074, 1086, 1089, 1080, 1073, 1080, 1088, 1089, 1082>>  \* 'новосибирск'
     >>],
    \* 'Казахстан'
    [name |-> <<1050, 1072, 1079, 1072, 1093, 1089, 1090, 1072, 1085>>,
     keywords |-> <<
       <<1073, 1072, 1081, 1089, 1077, 1088, 1082, 1077>>,  \* 'байсерке'
       <<1072, 1090, 1072, 1082, 1077, 1085, 1090>>,  \* 'атакент'
       <<1072, 1082, 1090, 1086, 1073, 1077>>,  \* 'актобе'
       <<1072, 1089, 1090, 1072, 1085, 1072>>  \* 'астана'
     >>],
    \* 'Беларусь'
    [name |-> <<1041, 1077, 1083, 1072, 1088, 1091, 1089, 1100>>,
     keywords |-> <<
       <<1084, 1080, 1085, 1089, 1082>>,  \* 'минск'
       <<1073, 1088, 1077, 1089, 1090>>,  \* 'брест'
       <<1075, 1088, 1086, 1076, 1085, 1086>>  \* 'гродно'
     >>],
    \* 'Узбекистан'
    [name |-> <<1059, 1079, 1073, 1077, 1082, 1080, 1089, 1090, 1072, 1085>>,
     keywords |-> <<
       <<1090, 1072, 1096, 1082, 1077, 1085, 1090>>  \* 'ташкент'
     >>],
    \* 'Армения'
    [name |-> <<1040, 1088, 1084, 1077, 1085, 1080, 1103>>,
     keywords |-> <<
       <<1077, 1088, 1077, 1074, 1072, 1085>>  \* 'ереван'
     >>],
    \* 'Грузия'
    [name |-> <<1043, 1088, 1091, 1079, 1080, 1103>>,
     keywords |-> <<
       <<1090, 1073, 1080, 1083, 1080, 1089, 1080>>  \* 'тбилиси'
     >>]
  >>

OZON_CLUSTERS ==
  <<
    \* 'Москва, МО и Дальние регионы'
    [name |-> <<1052, 1086, 1089, 1082, 1074, 1072, 44, 32, 1052, 1054, 32, 1080, 32, 1044, 1072, 1083, 1100, 1085, 1080, 1077, 32, 1088, 1077, 1075, 1080, 1086, 1085, 1099>>,
     keywords |-> <<
       <<1093, 1086, 1088, 1091, 1075, 1074, 1080, 1085, 1086>>,  \* 'хоругвино'
       <<1085, 1086, 1075, 1080, 1085, 1089, 1082>>,  \* 'ногинск'
       <<1087, 1091, 1096, 1082, 1080, 1085, 1086>>,  \* 'пушкино'
       <<1089, 1086, 1092, 1100, 1080, 1085, 1086>>,  \* 'софьино'
       <<1088, 1072, 1076, 1091, 1084, 1083, 1103>>,  \* 'радумля'
       <<1087, 1072, 1074, 1083, 1086>>,  \* 'павло'
       <<1089, 1083, 1086, 1073, 1086, 1076, 1089, 1082, 1086, 1077>>,  \* 'слободское'
       <<1087, 1077, 1090, 1088, 1086, 1074, 1089, 1082, 1086, 1077>>,  \* 'петровское'
       <<1078, 1091, 1082, 1086, 1074, 1089, 1082, 1080, 1081>>,  \* 'жуковский'
       <<1076, 1086, 1084, 1086, 1076, 1077, 1076, 1086, 1074, 1086>>,  \* 'домодедово'
       <<1075, 1088, 1080, 1074, 1085, 1086>>  \* 'гривно'
     >>],
    \* 'Санкт-Петербург и СЗО'
    [name |-> <<1057, 1072, 1085, 1082, 1090, 45, 1055, 1077, 1090, 1077, 1088, 1073, 1091, 1088, 1075, 32, 1080, 32, 1057, 1047, 1054>>,
     keywords |-> <<
       <<1082, 1086, 1083, 1087, 1080, 1085, 1086>>,  \* 'колпино'
       <<1096, 1091, 1096, 1072, 1088, 1099>>,  \* 'шушары'
       <<1074, 1086, 1083, 1093, 1086, 1085, 1082, 1072>>,  \* 'волхонка'
       <<1089, 1072, 1085, 1082, 1090, 45, 1087, 1077, 1090, 1077, 1088, 1073, 1091, 1088, 1075>>,  \* 'санкт-петербург'
       <<1089, 1087, 1073>>,  \* 'спб'
       <<1073, 1091, 1075, 1088, 1099>>  \* 'бугры'
     >>],
    \* 'Казань'
    [name |-> <<1050, 1072, 1079, 1072, 1085, 1100>>,
     keywords |-> <<
       <<1082, 1072, 1079, 1072, 1085, 1100>>,  \* 'казань'
       <<1082, 1079, 1085>>,  \* 'кзн'
       <<1089, 1090, 1086, 1083, 1073, 1080, 1097, 1077>>,  \* 'столбище'
       <<1085, 1080, 1078, 1085, 1080, 1081, 32, 1085, 1086, 1074, 1075, 1086, 1088, 1086, 1076>>  \* 'нижний новгород'
     >>],
    \* 'Самара'
    [name |-> <<1057, 1072, 1084, 1072, 1088, 1072>>,
     keywords |-> <<
       <<1089, 1072, 1084, 1072, 1088, 1072>>  \* 'самара'
     >>],
    \* 'Уфа'
    [name |-> <<1059, 1092, 1072>>,
     keywords |-> <<
       <<1091, 1092, 1072>>  \* 'уфа'
     >>],
    \* 'Оренбург'
    [name |-> <<1054, 1088, 1077, 1085, 1073, 1091, 1088, 1075>>,
     keywords |-> <<
       <<1086, 1088, 1077, 1085, 1073, 1091, 1088, 1075>>  \* 'оренбург'
     >>],
    \* 'Краснодар'
    [name |-> <<1050, 1088, 1072, 1089, 1085, 1086, 1076, 1072, 1088>>,
     keywords |-> <<
       <<1072, 1076, 1099, 1075, 1077, 1081, 1089, 1082>>,  \* 'адыгейск'
       <<1102, 1078, 1085, 1099, 1081, 32, 1086, 1073, 1093, 1086, 1076>>,  \* 'южный обход'
       <<1085, 1086, 1074, 1086, 1088, 1086, 1089, 1089, 1080, 1081, 1089, 1082>>  \* 'новороссийск'
     >>],
    \* 'Ростов'
    [name |-> <<1056, 1086, 1089, 1090, 1086, 1074>>,
     keywords |-> <<
       <<1088, 1086, 1089, 1090, 1086, 1074>>  \* 'ростов'
     >>],
    \* 'Воронеж'
    [name |-> <<1042, 1086, 1088, 1086, 1085, 1077, 1078>>,
     keywords |-> <<
       <<1074, 1086, 1088, 1086, 1085, 1077, 1078>>  \* 'воронеж'
     >>],
    \* 'Саратов'
    [name |-> <<1057, 1072, 1088, 1072, 1090, 1086, 1074>>,
     keywords |-> <<
       <<1074, 1086, 1083, 1075, 1086, 1075, 1088, 1072, 1076>>,  \* 'волгоград'
       <<1089, 1072, 1088, 1072, 1090, 1086, 1074>>  \* 'саратов'
     >>],
    \* 'Невинномысск'
    [name |-> <<1053, 1077, 1074, 1080, 1085, 1085, 1086, 1084, 1099, 1089, 1089, 1082>>,
     keywords |-> <<
       <<1085, 1077, 1074, 1080, 1085, 1085, 1086, 1084, 1099, 1089, 1089, 1082>>  \* 'невинномысск'
     >>],
    \* 'Махачкала'
    [name |-> <<1052, 1072, 1093, 1072, 1095, 1082, 1072, 1083, 1072>>,
     keywords |-> <<
       <<1084, 1072, 1093, 1072, 1095, 1082, 1072, 1083, 1072>>  \* 'махачкала'
     >>],
    \* 'Красноярск'
    [name |-> <<1050, 1088, 1072, 1089, 1085, 1086, 1103, 1088, 1089, 1082>>,
     keywords |-> <<
       <<1082, 1088, 1072, 1089, 1085, 1086, 1103, 1088, 1089, 1082>>  \* 'красноярск'
     >>],
    \* 'Новосибирск'
    [name |-> <<1053, 1086, 1074, 1086, 1089, 1080, 1073, 1080, 1088, 1089, 1082>>,
     keywords |-> <<
       <<1085, 1086, 1074, 1086, 1089, 1080, 1073, 1080, 1088, 1089, 1082>>  \* 'новосибирск'
     >>],
    \* 'Омск'
    [name |-> <<1054, 1084, 1089, 1082>>,
     keywords |-> <<
       <<1086, 1084, 1089, 1082>>  \* 'омск'
     >>],
    \* 'Екатеринбург'
    [name |-> <<1045, 1082, 1072, 1090, 1077, 1088, 1080, 1085, 1073, 1091, 1088, 1075>>,
     keywords |-> <<
       <<1077, 1082, 1072, 1090, 1077, 1088, 1080, 1085, 1073, 1091, 1088, 1075>>  \* 'екатеринбург'
     >>],
    \* 'Пермь'
    [name |-> <<1055, 1077, 1088, 1084, 1100>>,
     keywords |-> <<
       <<1087, 1077, 1088, 1084, 1100>>  \* 'пермь'
     >>],
    \* 'Тюмень'
    [name |-> <<1058, 1102, 1084, 1077, 1085, 1100>>,
     keywords |-> <<
       <<1090, 1102, 1084, 1077, 1085, 1100>>  \* 'тюмень'
     >>],
    \* 'Дальний Восток'
    [name |-> <<1044, 1072, 1083, 1100, 1085, 1080, 1081, 32, 1042, 1086, 1089, 1090, 1086, 1082>>,
     keywords |-> <<
       <<1093, 1072, 1073, 1072, 1088, 1086, 1074, 1089, 1082>>  \* 'хабаровск'
     >>],
    \* 'Тверь'
    [name |-> <<1058, 1074, 1077, 1088, 1100>>,
     keywords |-> <<
       <<1090, 1074, 1077, 1088, 1100>>  \* 'тверь'
     >>],
    \* 'Ярославль'
    [name |-> <<1071, 1088, 1086, 1089, 1083, 1072, 1074, 1083, 1100>>,
     keywords |-> <<
       <<1103, 1088, 1086, 1089, 1083, 1072, 1074, 1083, 1100>>  \* 'ярославль'
     >>],
    \* 'Калининград'
    [name |-> <<1050, 1072, 1083, 1080, 1085, 1080, 1085, 1075, 1088, 1072, 1076>>,
     keywords |-> <<
       <<1082, 1072, 1083, 1080, 1085, 1080, 1085, 1075, 1088, 1072, 1076>>  \* 'калининград'
     >>],
    \* 'Беларусь'
    [name |-> <<1041, 1077, 1083, 1072, 1088, 1091, 1089, 1100>>,
     keywords |-> <<
       <<1084, 1080, 1085, 1089, 1082>>  \* 'минск'
     >>],
    \* 'Астана'
    [name |-> <<1040, 1089, 1090, 1072, 1085, 1072>>,
     keywords |-> <<
       <<1072, 1089, 1090, 1072, 1085, 1072>>  \* 'астана'
     >>],
    \* 'Алматы'
    [name |-> <<1040, 1083, 1084, 1072, 1090, 1099>>,
     keywords |-> <<
       <<1072, 1083, 1084, 1072, 1090, 1099>>  \* 'алматы'
     >>],
    \* 'Армения'
    [name |-> <<1040, 1088, 1084, 1077, 1085, 1080, 1103>>,
     keywords |-> <<
       <<1077, 1088, 1077, 1074, 1072, 1085>>  \* 'ереван'
     >>]
  >>

\* mutant: the fallback cluster is named 'Other'
FALLBACK_CLUSTER_OTHER ==
  <<79, 116, 104, 101, 114>>

\* 'Прочие', the cluster returned when no keyword matches
FALLBACK_CLUSTER ==
  <<1055, 1088, 1086, 1095, 1080, 1077>>

\* str.lower() of one character: Latin A-Z, Cyrillic А-Я and Ё
LowerChar(c) ==
  IF (c >= 65 /\ c <= 90) \/ (c >= 1040 /\ c <= 1071) THEN c + 32
  ELSE IF c = 1025 THEN 1105
  ELSE c

\* name = warehouse_name.lower()
Lower(s) ==
  [i \in 1..Len(s) |-> LowerChar(s[i])]

\* keyword in name: keyword is a substring of name
IsSubstring(keyword, name) ==
  \E i \in 1..(Len(name) - Len(keyword) + 1) :
    SubSeq(name, i, i + Len(keyword) - 1) = keyword

RECURSIVE ScanKeywords(_, _, _)
\* for keyword in keywords: if keyword in name: return cluster_name
ScanKeywords(keywords, j, name) ==
  IF j > Len(keywords) THEN FALSE
  ELSE IF IsSubstring(keywords[j], name) THEN TRUE
  ELSE ScanKeywords(keywords, j + 1, name)

RECURSIVE ScanClusters(_, _, _)
\* for cluster_name, keywords in clusters.items(): ...; return 'Прочие'
ScanClusters(clusters, i, name) ==
  IF i > Len(clusters) THEN FALLBACK_CLUSTER
  ELSE IF ScanKeywords(clusters[i].keywords, 1, name) THEN clusters[i].name
  ELSE ScanClusters(clusters, i + 1, name)

RECURSIVE ScanClustersBackwards(_, _, _)
ScanClustersBackwards(clusters, i, name) ==
  IF i < 1 THEN FALLBACK_CLUSTER
  ELSE IF ScanKeywords(clusters[i].keywords, 1, name) THEN clusters[i].name
  ELSE ScanClustersBackwards(clusters, i - 1, name)

ClusterTable(mp_type) ==
  IF mp_type = "wb" THEN WB_CLUSTERS ELSE OZON_CLUSTERS

\* mutant: the name is not lower-cased before the scan
get_warehouse_cluster_no_lower(warehouse_name, mp_type) ==
  ScanClusters(ClusterTable(mp_type), 1, warehouse_name)

\* mutant: the last matching cluster of the table wins
get_warehouse_cluster_last_match(warehouse_name, mp_type) ==
  LET clusters == ClusterTable(mp_type)
  IN  ScanClustersBackwards(clusters, Len(clusters), Lower(warehouse_name))

get_warehouse_cluster(warehouse_name, mp_type) ==
  ScanClusters(ClusterTable(mp_type), 1, Lower(warehouse_name))

(***************************************************************************)
(* Warehouse names given to the classifier: one to MaxWords words of       *)
(* NameWords joined by a space.                                            *)
(***************************************************************************)
NameWords ==
  <<
    <<1050, 1086, 1083, 1077, 1076, 1080, 1085, 1086>>,  \* 'Коледино': WB: 'коледино' (Центральный); Ozon: no keyword
    <<1050, 1040, 1047, 1040, 1053, 1068>>,  \* 'КАЗАНЬ': upper case; WB: Приволжский; Ozon: Казань
    <<1058, 1074, 1077, 1088, 1100>>,  \* 'Тверь': WB: Центральный (cluster 1); Ozon: Тверь (cluster 20)
    <<1053, 1077, 1074, 1080, 1085, 1085, 1086, 1084, 1099, 1089, 1089, 1082>>,  \* 'Невинномысск': WB: Южный + Северо-Кавказский; Ozon: Невинномысск
    <<1057, 1055, 1041>>,  \* 'СПБ': upper case; WB: Северо-Западный; Ozon: Санкт-Петербург и СЗО
    <<1058, 1086, 1084, 1089, 1082>>,  \* 'Томск': no WB keyword; contains Ozon keyword 'омск'
    <<1057, 1082, 1083, 1072, 1076>>,  \* 'Склад': no keyword of either table
    <<1042, 1025, 1064, 1050, 1048>>  \* 'ВЁШКИ': upper case with Ё; WB: Центральный; no Ozon keyword
  >>

RECURSIVE JoinWords(_, _)
\* the words ws[k..] joined by ' '
JoinWords(ws, k) ==
  IF k > Len(ws) THEN <<>>
  ELSE IF k = Len(ws) THEN NameWords[ws[k]]
  ELSE NameWords[ws[k]] \o <<32>> \o JoinWords(ws, k + 1)

WarehouseNames ==
  UNION {{JoinWords(ws, 1) : ws \in [1..n -> 1..Len(NameWords)]} : n \in 1..MaxWords}

(***************************************************************************)
(* Aggregator: aggregate_sales_data.                                       *)
(* A dict is a function on its keys (a record); d.get(k, default) is Get.  *)
(* A dict the code iterates (by_warehouse, by_region, by_product and the   *)
(* nested breakdowns) is the sequence of its values in insertion order.    *)
(***************************************************************************)
\* the number of buckets sorted(...)[:15] keeps
TopN ==
  15

\* {}
EmptyDict ==
  [k \in {} |-> 0]

\* d.get(k, default)
Get(d, k, default) ==
  IF k \in DOMAIN d THEN d[k] ELSE default

\* d[k] is None: the key is null in the raw JSON.  A dict of the model lists
\* such keys in d.null and gives them no value of their own
IsNull(d, k) ==
  k \in Get(d, "null", {})

\* position of the bucket of by_warehouse / by_region with this key, 0 if none
NameIndex(buckets, key) ==
  IF \E i \in 1..Len(buckets) : buckets[i].name = key
  THEN CHOOSE i \in 1..Len(buckets) : buckets[i].name = key
  ELSE 0

\* position of the bucket of by_product with this key, 0 if none
ArticleIndex(buckets, key) ==
  IF \E i \in 1..Len(buckets) : buckets[i].article = key
  THEN CHOOSE i \in 1..Len(buckets) : buckets[i].article = key
  ELSE 0

\* if key not in d: d[key] = fresh
EnsureKey(buckets, idx, fresh) ==
  IF idx = 0 THEN Append(buckets, fresh) ELSE buckets

\* bucket['count'] += n; bucket['revenue'] += amount
Accumulate(bucket, n, amount) ==
  [bucket EXCEPT !.count = @ + n, !.revenue = @ + amount]

RECURSIVE OrderPriceOfUnits(_, _)
\* mutant: the prices of the products are summed, whatever their quantities
OrderPriceOfUnits(prods, k) ==
  IF k > Len(prods) THEN 0
  ELSE Get(prods[k], "price", 0) + OrderPriceOfUnits(prods, k + 1)

RECURSIVE OrderPrice(_, _)
\* for prod in financial.get('products', []): price += price * quantity
OrderPrice(prods, k) ==
  IF k > Len(prods) THEN 0
  ELSE Get(prods[k], "price", 0) * Get(prods[k], "quantity", 1)
       + OrderPrice(prods, k + 1)

\* the fields of one order: price, wh_name, region, article
ExtractFields(item, mp_type) ==
  IF mp_type = "wb"
  THEN [price   |-> IF IsNull(item, "priceWithDisc") THEN 0
                    ELSE Get(item, "priceWithDisc", 0),
        wh_name |-> Get(item, "warehouseName", "Unknown"),
        region  |-> Get(item, "regionName", "Unknown"),
        article |-> Get(item, "supplierArticle", "Unknown")]
  ELSE LET financial  == Get(item, "financial_data", EmptyDict)
           analytics  == Get(item, "analytics_data", EmptyDict)
           cluster_to == Get(financial, "cluster_to", "")
           city       == Get(analytics, "city", "")
           region     == IF cluster_to # "" THEN cluster_to ELSE city
       IN  [price   |-> OrderPrice(Get(financial, "products", <<>>), 1),
            wh_name |-> Get(analytics, "warehouse_name", "Unknown"),
            region  |-> IF region # "" THEN region ELSE "Unknown",
            article |-> None]

\* by_product of one warehouse bucket: the entry of the article, counted once
AddBreakdownProduct(by_product, article, price) ==
  LET bp == EnsureKey(by_product, ArticleIndex(by_product, article),
                      [article |-> article, count |-> 0, revenue |-> 0])
  IN  [bp EXCEPT ![ArticleIndex(bp, article)] = Accumulate(@, 1, price)]

\* warehouse aggregation, with the product breakdown for WB only
AddToWarehouse(by_warehouse, f, mp_type) ==
  LET bw == EnsureKey(by_warehouse, NameIndex(by_warehouse, f.wh_name),
                      [name |-> f.wh_name, count |-> 0, revenue |-> 0,
                       by_product |-> <<>>])
      i  == NameIndex(bw, f.wh_name)
      b1 == Accumulate(bw[i], 1, f.price)
  IN  [bw EXCEPT ![i] =
         IF mp_type = "wb"
         THEN [b1 EXCEPT !.by_product = AddBreakdownProduct(@, f.article, f.price)]
         ELSE b1]

\* mutant: an order with no revenue is left out of the region buckets
AddToRegionSkipFree(by_region, f) ==
  LET br == EnsureKey(by_region, NameIndex(by_region, f.region),
                      [name |-> f.region, count |-> 0, revenue |-> 0])
  IN  IF f.price = 0 THEN by_region
      ELSE [br EXCEPT ![NameIndex(br, f.region)] = Accumulate(@, 1, f.price)]

\* region aggregation
AddToRegion(by_region, f) ==
  LET br == EnsureKey(by_region, NameIndex(by_region, f.region),
                      [name |-> f.region, count |-> 0, revenue |-> 0])
  IN  [br EXCEPT ![NameIndex(br, f.region)] = Accumulate(@, 1, f.price)]

\* mutant: the breakdown counts one per line item instead of its quantity
AddBreakdownWarehouseCountOne(by_warehouse, wh_name, qty, revenue) ==
  LET bw == EnsureKey(by_warehouse, NameIndex(by_warehouse, wh_name),
                      [name |-> wh_name, count |-> 0, revenue |-> 0])
  IN  [bw EXCEPT ![NameIndex(bw, wh_name)] = Accumulate(@, 1, revenue)]

\* by_warehouse of one product bucket: the entry of the warehouse
AddBreakdownWarehouse(by_warehouse, wh_name, qty, revenue) ==
  LET bw == EnsureKey(by_warehouse, NameIndex(by_warehouse, wh_name),
                      [name |-> wh_name, count |-> 0, revenue |-> 0])
  IN  [bw EXCEPT ![NameIndex(bw, wh_name)] = Accumulate(@, qty, revenue)]

\* mutant: a product bucket counts one per line item, whatever its quantity
AddToProductCountOne(by_product, article, wh_name, qty, revenue) ==
  LET bp == EnsureKey(by_product, ArticleIndex(by_product, article),
                      [article |-> article, count |-> 0, revenue |-> 0,
                       by_warehouse |-> <<>>])
      i  == ArticleIndex(bp, article)
  IN  [bp EXCEPT ![i] =
         [Accumulate(bp[i], 1, revenue) EXCEPT
            !.by_warehouse = AddBreakdownWarehouse(@, wh_name, 1, revenue)]]

\* by_product[article] += (qty, revenue), and its by_warehouse[wh_name] too
AddToProduct(by_product, article, wh_name, qty, revenue) ==
  LET bp == EnsureKey(by_product, ArticleIndex(by_product, article),
                      [article |-> article, count |-> 0, revenue |-> 0,
                       by_warehouse |-> <<>>])
      i  == ArticleIndex(bp, article)
  IN  [bp EXCEPT ![i] =
         [Accumulate(bp[i], qty, revenue) EXCEPT
            !.by_warehouse = AddBreakdownWarehouse(@, wh_name, qty, revenue)]]

RECURSIVE AddOzonProductsUnitPrice(_, _, _, _)
\* mutant: a line item adds its unit price to the revenue of its product
AddOzonProductsUnitPrice(by_product, prods, k, wh_name) ==
  IF k > Len(prods) THEN by_product
  ELSE AddOzonProductsUnitPrice(
         AddToProduct(by_product, Get(prods[k], "offer_id", "Unknown"), wh_name,
                      Get(prods[k], "quantity", 1), Get(prods[k], "price", 0)),
         prods, k + 1, wh_name)

RECURSIVE AddOzonProducts(_, _, _, _)
\* for prod in item.get('products', []): ...
AddOzonProducts(by_product, prods, k, wh_name) ==
  IF k > Len(prods) THEN by_product
  ELSE LET prod      == prods[k]
           p_article == Get(prod, "offer_id", "Unknown")
           p_price   == Get(prod, "price", 0)
           p_qty     == Get(prod, "quantity", 1)
           p_revenue == p_price * p_qty
       IN  AddOzonProducts(
             AddToProduct(by_product, p_article, wh_name, p_qty, p_revenue),
             prods, k + 1, wh_name)

\* None * quantity, price * None, float(None) and int(None) raise TypeError:
\* a price or a quantity that is null in a product of financial_data or in a
\* line item of an Ozon order
ItemRaises(item, mp_type) ==
  /\ mp_type = "ozon"
  /\ LET financial == Get(Get(item, "financial_data", EmptyDict), "products", <<>>)
         prods     == Get(item, "products", <<>>)
     IN  \/ \E k \in 1..Len(financial) :
               IsNull(financial[k], "price") \/ IsNull(financial[k], "quantity")
         \/ \E k \in 1..Len(prods) :
               IsNull(prods[k], "price") \/ IsNull(prods[k], "quantity")

\* the body of 'for item in sales_list'
AggregateItem(acc, item, mp_type) ==
  LET f == ExtractFields(item, mp_type)
  IN  [total_revenue |-> acc.total_revenue + f.price,
       orders_count  |-> acc.orders_count + 1,
       by_warehouse  |-> AddToWarehouse(acc.by_warehouse, f, mp_type),
       by_region     |-> AddToRegion(acc.by_region, f),
       by_product    |->
         IF mp_type = "wb"
         THEN AddToProduct(acc.by_product, f.article, f.wh_name, 1, f.price)
         ELSE AddOzonProducts(acc.by_product, Get(item, "products", <<>>), 1, f.wh_name)]

RECURSIVE AggregateLoop(_, _, _, _)
AggregateLoop(acc, sales_list, k, mp_type) ==
  IF k > Len(sales_list) THEN acc
  ELSE AggregateLoop(AggregateItem(acc, sales_list[k], mp_type), sales_list, k + 1, mp_type)

\* mutant: the reverse of an ascending sort, which turns ties around
SortedDescUnstable(keys) ==
  LET n == Len(keys)
      rank(i) == Cardinality({j \in 1..n : keys[j] > keys[i] \/ (keys[j] = keys[i] /\ j > i)}) + 1
  IN  [p \in 1..n |-> CHOOSE i \in 1..n : rank(i) = p]

\* sorted(..., key=..., reverse=True) as the positions of the input in output
\* order: descending by key, equal keys in their input order (a stable sort)
SortedDesc(keys) ==
  LET n == Len(keys)
      rank(i) == Cardinality({j \in 1..n : keys[j] > keys[i] \/ (keys[j] = keys[i] /\ j < i)}) + 1
  IN  [p \in 1..n |-> CHOOSE i \in 1..n : rank(i) = p]

\* sorted(buckets, key=lambda x: x['revenue'], reverse=True)
SortByRevenue(buckets) ==
  LET order == SortedDesc([i \in 1..Len(buckets) |-> buckets[i].revenue])
  IN  [p \in 1..Len(buckets) |-> buckets[order[p]]]

\* sorted(buckets, key=lambda x: x['count'], reverse=True)
SortByCount(buckets) ==
  LET order == SortedDesc([i \in 1..Len(buckets) |-> buckets[i].count])
  IN  [p \in 1..Len(buckets) |-> buckets[order[p]]]

\* s[:n]
Prefix(s, n) ==
  SubSeq(s, 1, IF Len(s) < n THEN Len(s) ELSE n)

\* mutant: the product list is cut to the top 15 as well
SortedProductsTruncated(by_product) ==
  LET sorted == Prefix(SortByRevenue(by_product), TopN)
  IN  [p \in 1..Len(sorted) |->
         [sorted[p] EXCEPT !.by_warehouse = SortByRevenue(@)]]

\* sorted_products, each with its by_warehouse flattened and sorted
SortedProducts(by_product) ==
  LET sorted == SortByRevenue(by_product)
  IN  [p \in 1..Len(sorted) |->
         [sorted[p] EXCEPT !.by_warehouse = SortByRevenue(@)]]

\* sorted_warehouses: the top 15, each with its by_product flattened and sorted
SortedWarehouses(by_warehouse) ==
  LET sorted == Prefix(SortByRevenue(by_warehouse), TopN)
  IN  [p \in 1..Len(sorted) |->
         [sorted[p] EXCEPT !.by_product = SortByCount(@)]]

\* sorted_regions: the top 15
SortedRegions(by_region) ==
  Prefix(SortByRevenue(by_region), TopN)

aggregate_sales_data(sales_list, mp_type) ==
  IF \E k \in 1..Len(sales_list) : ItemRaises(sales_list[k], mp_type)
  THEN Raise("TypeError")
  ELSE
  LET acc == AggregateLoop(
               [total_revenue |-> 0, orders_count |-> 0,
                by_warehouse |-> <<>>, by_region |-> <<>>, by_product |-> <<>>],
               sales_list, 1, mp_type)
  IN  [revenue            |-> acc.total_revenue,
       orders_count       |-> acc.orders_count,
       sales_by_warehouse |-> SortedWarehouses(acc.by_warehouse),
       sales_by_region    |-> SortedRegions(acc.by_region),
       sales_by_product   |-> SortedProducts(acc.by_product)]

(***************************************************************************)
(* Period filter: parse_date, periods_config and the filter loops of       *)
(* prepare.  A date is its proleptic Gregorian ordinal (date.toordinal()), *)
(* so that d == target_day, d >= start_day and today - timedelta(days=n)   *)
(* are comparisons and a subtraction of integers.  A timestamp is text.    *)
(***************************************************************************)
IsLeap(year) ==
  year % 4 = 0 /\ (year % 100 # 0 \/ year % 400 = 0)

DaysInMonth(year, month) ==
  IF month = 2 THEN (IF IsLeap(year) THEN 29 ELSE 28)
  ELSE IF month \in {4, 6, 9, 11} THEN 30
  ELSE 31

RECURSIVE DaysBeforeMonth(_, _)
DaysBeforeMonth(year, month) ==
  IF month = 1 THEN 0
  ELSE DaysBeforeMonth(year, month - 1) + DaysInMonth(year, month - 1)

\* date(year, month, day).toordinal()
DateOrdinal(year, month, day) ==
  LET y == year - 1
  IN  y * 365 + (y \div 4) - (y \div 100) + (y \div 400)
      + DaysBeforeMonth(year, month) + day

IsDigit(c) ==
  c >= 48 /\ c <= 57

AllDigits(s) ==
  \A i \in 1..Len(s) : IsDigit(s[i])

RECURSIVE Number(_)
\* the number a text of digits reads
Number(s) ==
  IF s = <<>> THEN 0 ELSE 10 * Number(SubSeq(s, 1, Len(s) - 1)) + (s[Len(s)] - 48)

\* the datetime of year-month-day ([day |-> ordinal]; the time of day is
\* read by no caller), None when there is no such date
MakeDate(year, month, day) ==
  IF year >= 1 /\ month >= 1 /\ month <= 12 /\ day >= 1 /\ day <= DaysInMonth(year, month)
  THEN [day |-> DateOrdinal(year, month, day)]
  ELSE None

RECURSIVE ReplaceZ(_)
\* date_str.replace('Z', '+00:00')
ReplaceZ(s) ==
  IF s = <<>> THEN <<>>
  ELSE (IF s[1] = 90 THEN <<43, 48, 48, 58, 48, 48>> ELSE <<s[1]>>) \o ReplaceZ(Tail(s))

\* HH:MM of a zone offset, or HH, HH:MM, HH:MM:SS of a time
ValidClock(t) ==
  /\ Len(t) \in {2, 5, 8}
  /\ \A i \in 1..Len(t) : IF i \in {3, 6} THEN t[i] = 58 ELSE IsDigit(t[i])
  /\ Number(SubSeq(t, 1, 2)) < 24
  /\ Len(t) >= 5 => Number(SubSeq(t, 4, 5)) < 60
  /\ Len(t) >= 8 => Number(SubSeq(t, 7, 8)) < 60

\* HH[:MM[:SS[.fff[fff]]]] of datetime.fromisoformat
ValidTime(t) ==
  IF Len(t) \in {12, 15}
  THEN ValidClock(SubSeq(t, 1, 8)) /\ t[9] = 46 /\ AllDigits(SubSeq(t, 10, Len(t)))
  ELSE ValidClock(t)

\* the time of day and the optional +HH:MM / -HH:MM after it
ValidTimeAndZone(t) ==
  LET signs == {i \in 1..Len(t) : t[i] \in {43, 45}}
  IN  IF signs = {} THEN ValidTime(t)
      ELSE LET at == CHOOSE i \in signs : \A j \in signs : i <= j
               zone == SubSeq(t, at + 1, Len(t))
           IN  /\ ValidTime(SubSeq(t, 1, at - 1))
               /\ Len(zone) = 5 /\ ValidClock(zone)

\* datetime.fromisoformat(s): YYYY-MM-DD, alone or followed by one separator
\* character and a time; None stands for ValueError
FromIsoFormat(s) ==
  IF Len(s) < 10 THEN None
  ELSE IF ~ ( /\ AllDigits(SubSeq(s, 1, 4)) /\ s[5] = 45
              /\ AllDigits(SubSeq(s, 6, 7)) /\ s[8] = 45
              /\ AllDigits(SubSeq(s, 9, 10)) ) THEN None
  ELSE IF Len(s) > 10 /\ ~ ValidTimeAndZone(SubSeq(s, 12, Len(s))) THEN None
  ELSE MakeDate(Number(SubSeq(s, 1, 4)), Number(SubSeq(s, 6, 7)), Number(SubSeq(s, 9, 10)))

\* datetime.strptime(s, '%Y-%m-%d'): four digits of year, one or two of
\* month and of day; None stands for ValueError
StrpTime(s) ==
  LET dashes == {i \in 1..Len(s) : s[i] = 45}
  IN  IF Cardinality(dashes) # 2 THEN None
      ELSE LET d1 == CHOOSE i \in dashes : \A j \in dashes : i <= j
               d2 == CHOOSE i \in dashes : \A j \in dashes : i >= j
               year  == SubSeq(s, 1, d1 - 1)
               month == SubSeq(s, d1 + 1, d2 - 1)
               day   == SubSeq(s, d2 + 1, Len(s))
           IN  IF /\ Len(year) = 4 /\ Len(month) \in {1, 2} /\ Len(day) \in {1, 2}
                  /\ AllDigits(year) /\ AllDigits(month) /\ AllDigits(day)
               THEN MakeDate(Number(year), Number(month), Number(day))
               ELSE None

\* mutant: only the ISO form is read
parse_date_iso_only(date_str) ==
  IF date_str = None \/ date_str = <<>> THEN None
  ELSE FromIsoFormat(date_str)

parse_date(date_str) ==
  IF date_str = None \/ date_str = <<>> THEN None
  ELSE LET iso == FromIsoFormat(ReplaceZ(date_str))
       IN  IF iso # None THEN iso ELSE StrpTime(date_str)

\* mutant: 'days_3' starts today
periods_config_short_days_3 ==
  << [key |-> "today", days |-> 0],
     [key |-> "yesterday", days |-> 1, exact_day |-> TRUE],
     [key |-> "days_3", days |-> 0],
     [key |-> "days_7", days |-> 6],
     [key |-> "days_30", days |-> 29] >>

periods_config ==
  << [key |-> "today", days |-> 0],
     [key |-> "yesterday", days |-> 1, exact_day |-> TRUE],
     [key |-> "days_3", days |-> 2],
     [key |-> "days_7", days |-> 6],
     [key |-> "days_30", days |-> 29] >>

PeriodKeys ==
  {periods_config[i].key : i \in 1..Len(periods_config)}

\* d_str: item.get('date') or item.get('dateFull') for WB, created_at for Ozon
OrderDateStr(item, mp_type) ==
  IF mp_type = "wb"
  THEN LET date == Get(item, "date", None)
       IN  IF date # None /\ date # <<>> THEN date ELSE Get(item, "dateFull", None)
  ELSE Get(item, "created_at", None)

\* mutant: the exact-day period takes every day from its day on
InPeriodNoExactDay(d, p, today) ==
  d >= today - p.days

\* the test of one record against one period
InPeriod(d, p, today) ==
  IF Get(p, "exact_day", FALSE)
  THEN d = today - p.days
  ELSE d >= today - p.days

RECURSIVE FilterSalesNewestFirst(_, _, _, _, _)
\* mutant: a record of the period is put in front of the records before it
FilterSalesNewestFirst(raw_orders, k, p, today, mp_type) ==
  IF k > Len(raw_orders) THEN <<>>
  ELSE LET item == raw_orders[k]
           dt   == parse_date(OrderDateStr(item, mp_type))
           rest == FilterSalesNewestFirst(raw_orders, k + 1, p, today, mp_type)
       IN  IF dt = None THEN rest
           ELSE IF InPeriod(dt.day, p, today) THEN rest \o <<item>>
           ELSE rest

RECURSIVE FilterSales(_, _, _, _, _)
\* for item in raw_orders: ... filtered_sales.append(item)
FilterSales(raw_orders, k, p, today, mp_type) ==
  IF k > Len(raw_orders) THEN <<>>
  ELSE LET item == raw_orders[k]
           dt   == parse_date(OrderDateStr(item, mp_type))
           rest == FilterSales(raw_orders, k + 1, p, today, mp_type)
       IN  IF dt = None THEN rest
           ELSE IF InPeriod(dt.day, p, today) THEN <<item>> \o rest
           ELSE rest

\* filtered_sales of every period of periods_config
FilterPeriods(raw_orders, today, mp_type) ==
  [key \in PeriodKeys |->
     LET p == CHOOSE q \in {periods_config[i] : i \in 1..Len(periods_config)} : q.key = key
     IN  FilterSales(raw_orders, 1, p, today, mp_type)]

(***************************************************************************)
(* Colorizer: get_article_color.  An article is text (its code points), a  *)
(* color a string.  hash() of a str depends on the salt the interpreter    *)
(* draws when the process starts, so the salt is an argument here.         *)
(***************************************************************************)
\* color_map, in the order of its keys
COLOR_MAP ==
  << [article |-> <<83, 70, 48, 49, 50, 53>>, color |-> "#614701"],  \* 'SF0125'
     [article |-> <<83, 70, 48, 50, 53, 48>>, color |-> "#80651b"],  \* 'SF0250'
     [article |-> <<83, 70, 48, 53, 48, 48>>, color |-> "#b38c24"],  \* 'SF0500'
     [article |-> <<83, 70, 50, 53, 48, 48>>, color |-> "#b38c24"],  \* 'SF2500'
     [article |-> <<83, 77, 48, 50, 53, 48>>, color |-> "#78011b"],  \* 'SM0250'
     [article |-> <<83, 77, 48, 53, 48, 48>>, color |-> "#78011b"],  \* 'SM0500'
     [article |-> <<70, 83, 70, 51, 48, 48>>, color |-> "#015054"] >>  \* 'FSF300'

\* the prefixes tested after the table, in the order of the tests
PREFIX_COLORS ==
  << [prefix |-> <<70, 83, 70>>, color |-> "#015054"],  \* 'FSF'
     [prefix |-> <<83, 70>>, color |-> "#80651b"],  \* 'SF'
     [prefix |-> <<83, 77>>, color |-> "#78011b"] >>  \* 'SM'

\* fallback_colors
FALLBACK_COLORS ==
  <<"#6366f1", "#14b8a6", "#f97316", "#ef4444", "#22c55e">>

\* the salts a process may draw: between them they send every text to every
\* residue of the palette size, through negative and positive hash values
HashSalts ==
  {-7, -1, 0, 6, 12}

\* str.upper() of one character: Latin a-z, Cyrillic а-я and ё
UpperChar(c) ==
  IF (c >= 97 /\ c <= 122) \/ (c >= 1072 /\ c <= 1103) THEN c - 32
  ELSE IF c = 1105 THEN 1025
  ELSE c

\* article_upper = article.upper()
Upper(s) ==
  [i \in 1..Len(s) |-> UpperChar(s[i])]

\* s.startswith(prefix)
StartsWith(s, prefix) ==
  Len(s) >= Len(prefix) /\ SubSeq(s, 1, Len(prefix)) = prefix

RECURSIVE TextSum(_)
TextSum(s) ==
  IF s = <<>> THEN 0 ELSE s[1] + TextSum(Tail(s))

\* hash(text) of a str in a process of this salt: an integer that is fixed
\* within the process and moves with the salt; hash('') is 0 in every process
PyHash(text, hash_salt) ==
  IF text = <<>> THEN 0 ELSE TextSum(text) + Len(text) + hash_salt

\* the place of article_upper among the keys of color_map, 0 if it is no key
ColorMapIndex(article_upper) ==
  IF \E i \in 1..Len(COLOR_MAP) : COLOR_MAP[i].article = article_upper
  THEN CHOOSE i \in 1..Len(COLOR_MAP) : COLOR_MAP[i].article = article_upper
  ELSE 0

\* the first of the startswith tests that article_upper passes, 0 if none
PrefixIndex(article_upper) ==
  LET passed == {i \in 1..Len(PREFIX_COLORS) :
                   StartsWith(article_upper, PREFIX_COLORS[i].prefix)}
  IN  IF passed = {} THEN 0
      ELSE CHOOSE i \in passed : \A j \in passed : i <= j

\* fallback_colors[hash(article) % len(fallback_colors)]
FallbackColor(article, hash_salt) ==
  FALLBACK_COLORS[(PyHash(article, hash_salt) % Len(FALLBACK_COLORS)) + 1]

\* mutant: the prefixes are tested before the table
get_article_color_prefix_first(article, hash_salt) ==
  LET article_upper == Upper(article)
  IN  IF PrefixIndex(article_upper) # 0
      THEN PREFIX_COLORS[PrefixIndex(article_upper)].color
      ELSE IF ColorMapIndex(article_upper) # 0
      THEN COLOR_MAP[ColorMapIndex(article_upper)].color
      ELSE FallbackColor(article, hash_salt)

get_article_color(article, hash_salt) ==
  LET article_upper == Upper(article)
  IN  IF ColorMapIndex(article_upper) # 0
      THEN COLOR_MAP[ColorMapIndex(article_upper)].color
      ELSE IF PrefixIndex(article_upper) # 0
      THEN PREFIX_COLORS[PrefixIndex(article_upper)].color
      ELSE FallbackColor(article, hash_salt)

(***************************************************************************)
(* Chart dataset builder: the chart construction of prepare, which is the  *)
(* same code for WB (lines 446-516) and Ozon (lines 596-663) but for the   *)
(* priority list.  A warehouse is [name, total, products], products a dict *)
(* from article to quantity.                                               *)
(***************************************************************************)
\* priority_clusters of the WB chart
WB_PRIORITY_CLUSTERS ==
  <<
    <<1062, 1077, 1085, 1090, 1088, 1072, 1083, 1100, 1085, 1099, 1081>>,  \* 'Центральный'
    <<1057, 1077, 1074, 1077, 1088, 1086, 45, 1047, 1072, 1087, 1072, 1076, 1085, 1099, 1081>>,  \* 'Северо-Западный'
    <<1055, 1088, 1080, 1074, 1086, 1083, 1078, 1089, 1082, 1080, 1081>>,  \* 'Приволжский'
    <<1059, 1088, 1072, 1083, 1100, 1089, 1082, 1080, 1081>>  \* 'Уральский'
  >>

\* priority_clusters of the Ozon chart
OZON_PRIORITY_CLUSTERS ==
  <<
    <<1052, 1086, 1089, 1082, 1074, 1072, 44, 32, 1052, 1054, 32, 1080, 32, 1044, 1072, 1083, 1100, 1085, 1080, 1077, 32, 1088, 1077, 1075, 1080, 1086, 1085, 1099>>,  \* 'Москва, МО и Дальние регионы'
    <<1057, 1072, 1085, 1082, 1090, 45, 1055, 1077, 1090, 1077, 1088, 1073, 1091, 1088, 1075, 32, 1080, 32, 1057, 1047, 1054>>,  \* 'Санкт-Петербург и СЗО'
    <<1050, 1072, 1079, 1072, 1085, 1100>>,  \* 'Казань'
    <<1050, 1088, 1072, 1089, 1085, 1086, 1076, 1072, 1088>>  \* 'Краснодар'
  >>

PriorityClusters(mp_type) ==
  IF mp_type = "wb" THEN WB_PRIORITY_CLUSTERS ELSE OZON_PRIORITY_CLUSTERS

RECURSIVE TextLess(_, _)
\* a < b of two str: by code point, a proper prefix first
TextLess(a, b) ==
  IF a = <<>> THEN b # <<>>
  ELSE IF b = <<>> THEN FALSE
  ELSE IF a[1] # b[1] THEN a[1] < b[1]
  ELSE TextLess(Tail(a), Tail(b))

\* sorted(keys) of the keys of a dict
SortedKeys(keys) ==
  [p \in 1..Cardinality(keys) |->
     CHOOSE a \in keys : Cardinality({b \in keys : TextLess(b, a)}) = p - 1]

RECURSIVE WarehousesOf(_, _, _, _)
\* the warehouses appended to clustered_warehouses[cluster], in incoming order
WarehousesOf(stocks_wp, k, cluster, mp_type) ==
  IF k > Len(stocks_wp) THEN <<>>
  ELSE (IF get_warehouse_cluster(stocks_wp[k].name, mp_type) = cluster
        THEN <<stocks_wp[k]>> ELSE <<>>)
       \o WarehousesOf(stocks_wp, k + 1, cluster, mp_type)

\* clustered_warehouses after 'for wh in stocks_wp'
ClusteredWarehouses(stocks_wp, mp_type) ==
  [cluster \in {get_warehouse_cluster(stocks_wp[k].name, mp_type) : k \in 1..Len(stocks_wp)}
     |-> WarehousesOf(stocks_wp, 1, cluster, mp_type)]

RECURSIVE PresentPriority(_, _, _)
\* for pc in priority_clusters: if pc in clustered_warehouses: append
PresentPriority(priority_clusters, i, keys) ==
  IF i > Len(priority_clusters) THEN <<>>
  ELSE (IF priority_clusters[i] \in keys THEN <<priority_clusters[i]>> ELSE <<>>)
       \o PresentPriority(priority_clusters, i + 1, keys)

\* mutant: the clusters in sorted order alone, no priority
SortedClustersNoPriority(clustered_warehouses, mp_type) ==
  SortedKeys(DOMAIN clustered_warehouses)

\* mutant: the clusters in descending order of their names
SortedClustersDescending(clustered_warehouses, mp_type) ==
  LET sorted == SortedKeys(DOMAIN clustered_warehouses)
  IN  [p \in 1..Len(sorted) |-> sorted[Len(sorted) + 1 - p]]

\* sorted_clusters
SortedClusters(clustered_warehouses, mp_type) ==
  LET priority_clusters == PriorityClusters(mp_type)
      keys == DOMAIN clustered_warehouses
  IN  PresentPriority(priority_clusters, 1, keys)
      \o SortedKeys(keys \ {priority_clusters[i] : i \in 1..Len(priority_clusters)})

RECURSIVE SumValues(_)
\* sum(d.values())
SumValues(d) ==
  IF DOMAIN d = {} THEN 0
  ELSE LET k == CHOOSE x \in DOMAIN d : TRUE
       IN  d[k] + SumValues([x \in DOMAIN d \ {k} |-> d[x]])

RECURSIVE TotalStock(_)
\* sum(sum(wh['products'].values()) for wh in warehouses)
TotalStock(warehouses) ==
  IF warehouses = <<>> THEN 0
  ELSE SumValues(warehouses[1].products) + TotalStock(Tail(warehouses))

RECURSIVE BuildClustersEndAtLength(_, _, _, _)
\* mutant: end_index is the number of labels so far
BuildClustersEndAtLength(clustered_warehouses, sorted_clusters, i, chart) ==
  IF i > Len(sorted_clusters) THEN chart
  ELSE LET warehouses == clustered_warehouses[sorted_clusters[i]]
           labels == chart.labels \o [k \in 1..Len(warehouses) |-> warehouses[k].name]
           cluster_info ==
             [name            |-> sorted_clusters[i],
              start_index     |-> Len(chart.labels),
              warehouse_count |-> Len(warehouses),
              total_stock     |-> TotalStock(warehouses),
              end_index       |-> Len(labels)]
       IN  BuildClustersEndAtLength(clustered_warehouses, sorted_clusters, i + 1,
                                    [chart EXCEPT !.labels = labels,
                                                  !.clusters = Append(@, cluster_info)])

RECURSIVE BuildClusters(_, _, _, _)
\* 'for cluster_name in sorted_clusters': the labels and the cluster metadata
BuildClusters(clustered_warehouses, sorted_clusters, i, chart) ==
  IF i > Len(sorted_clusters) THEN chart
  ELSE LET warehouses == clustered_warehouses[sorted_clusters[i]]
           labels == chart.labels \o [k \in 1..Len(warehouses) |-> warehouses[k].name]
           cluster_info ==
             [name            |-> sorted_clusters[i],
              start_index     |-> Len(chart.labels),
              warehouse_count |-> Len(warehouses),
              total_stock     |-> TotalStock(warehouses),
              end_index       |-> Len(labels) - 1]
       IN  BuildClusters(clustered_warehouses, sorted_clusters, i + 1,
                         [chart EXCEPT !.labels = labels,
                                       !.clusters = Append(@, cluster_info)])

RECURSIVE OrderedWarehouses(_, _, _)
\* for cluster_name in sorted_clusters: for wh in clustered_warehouses[cluster_name]
OrderedWarehouses(clustered_warehouses, sorted_clusters, i) ==
  IF i > Len(sorted_clusters) THEN <<>>
  ELSE clustered_warehouses[sorted_clusters[i]]
       \o OrderedWarehouses(clustered_warehouses, sorted_clusters, i + 1)

RECURSIVE DatasetDataSkipMissing(_, _)
\* mutant: a warehouse that does not stock the article adds no entry
DatasetDataSkipMissing(article, warehouses) ==
  IF warehouses = <<>> THEN <<>>
  ELSE (IF article \in DOMAIN warehouses[1].products
        THEN <<warehouses[1].products[article]>> ELSE <<>>)
       \o DatasetDataSkipMissing(article, Tail(warehouses))

\* dataset["data"]: qty = wh['products'].get(article, 0) of each warehouse
DatasetData(article, warehouses) ==
  [k \in 1..Len(warehouses) |-> Get(warehouses[k].products, article, 0)]

\* mutant: any(d >= 0 for d in data)
AnyNotNegative(data) ==
  \E k \in 1..Len(data) : data[k] >= 0

\* mutant: all(d > 0 for d in data)
AllPositive(data) ==
  \A k \in 1..Len(data) : data[k] > 0

\* any(d > 0 for d in dataset["data"])
AnyPositive(data) ==
  \E k \in 1..Len(data) : data[k] > 0

RECURSIVE BuildDatasets(_, _, _, _)
\* 'for article in all_articles': the series that have a positive entry
BuildDatasets(all_articles, i, warehouses, hash_salt) ==
  IF i > Len(all_articles) THEN <<>>
  ELSE LET dataset == [label           |-> all_articles[i],
                       data            |-> DatasetData(all_articles[i], warehouses),
                       backgroundColor |-> get_article_color(all_articles[i], hash_salt),
                       borderColor     |-> "#1a1a1a",
                       borderWidth     |-> 1]
       IN  (IF AnyPositive(dataset.data) THEN <<dataset>> ELSE <<>>)
           \o BuildDatasets(all_articles, i + 1, warehouses, hash_salt)

\* wb_chart_data / ozon_chart_data: None unless both lists are non-empty;
\* wh['name'] and wh['products'] raise KeyError on a record without the key
BuildChart(stocks_wp, all_articles, mp_type, hash_salt) ==
  IF stocks_wp = <<>> \/ all_articles = <<>> THEN None
  ELSE IF \E k \in 1..Len(stocks_wp) :
            "name" \notin DOMAIN stocks_wp[k] \/ "products" \notin DOMAIN stocks_wp[k]
  THEN Raise("KeyError")
  ELSE LET clustered_warehouses == ClusteredWarehouses(stocks_wp, mp_type)
           sorted_clusters == SortedClusters(clustered_warehouses, mp_type)
           chart == BuildClusters(clustered_warehouses, sorted_clusters, 1,
                                  [labels |-> <<>>, clusters |-> <<>>])
       IN  [labels   |-> chart.labels,
            datasets |-> BuildDatasets(all_articles, 1,
                           OrderedWarehouses(clustered_warehouses, sorted_clusters, 1),
                           hash_salt),
            clusters |-> chart.clusters]

(***************************************************************************)
(* prepare: the two raw files are loaded, each marketplace that has data   *)
(* gets its stocks, its chart and its five period entries, and the         *)
(* document is written.  A raw file is [kind |-> "missing"], [kind |->     *)
(* "undecodable"] (bytes that are no UTF-8 text), [kind |-> "malformed"]   *)
(* (text that is no JSON) or [kind |-> "json", value |-> the dict].  The   *)
(* clock is [year, month, day, hour, minute].                              *)
(***************************************************************************)
\* json.load of the file opened as UTF-8 text: only json.JSONDecodeError is
\* caught, the UnicodeDecodeError of the read leaves the function
load_json(file) ==
  IF file.kind = "missing" THEN None
  ELSE IF file.kind = "undecodable" THEN Raise("UnicodeDecodeError")
  ELSE IF file.kind = "malformed" THEN None
  ELSE file.value

\* 'if wb_data:': neither None nor an empty dict
HasData(data) ==
  data # None /\ DOMAIN data # {}

\* '%02d'
Pad2(n) ==
  <<48 + (n \div 10), 48 + (n % 10)>>

\* strftime('%d.%m.%Y %H:%M')
StrfTime(now) ==
  Pad2(now.day) \o <<46>> \o Pad2(now.month) \o <<46>>
    \o Pad2(now.year \div 100) \o Pad2(now.year % 100)
    \o <<32>> \o Pad2(now.hour) \o <<58>> \o Pad2(now.minute)

\* 'Unknown', the default of an article and a warehouse of raw_stocks
UnknownText ==
  <<85, 110, 107, 110, 111, 119, 110>>

\* sorted(buckets, key=lambda x: x['quantity'], reverse=True)
SortByQuantity(buckets) ==
  LET order == SortedDesc([i \in 1..Len(buckets) |-> buckets[i].quantity])
  IN  [p \in 1..Len(buckets) |-> buckets[order[p]]]

RECURSIVE StockProductsLoop(_, _, _, _)
\* 'for item in raw_stocks'; by_warehouse holds product_warehouses[article]
StockProductsLoop(products, raw_stocks, k, hash_salt) ==
  IF k > Len(raw_stocks) THEN products
  ELSE LET item      == raw_stocks[k]
           article   == Get(item, "supplierArticle", UnknownText)
           qty       == Get(item, "quantityFull", 0)
           warehouse == Get(item, "warehouseName", UnknownText)
           idx       == ArticleIndex(products, article)
           known     == IF idx # 0 THEN products
                        ELSE Append(products,
                               [article |-> article, quantity |-> 0, warehouses_count |-> 0,
                                color |-> get_article_color(article, hash_salt),
                                by_warehouse |-> <<>>])
           at        == IF idx # 0 THEN idx ELSE Len(known)
           wh_data   == known[at].by_warehouse
           widx      == NameIndex(wh_data, warehouse)
           counted   == IF qty <= 0 THEN wh_data
                        ELSE IF widx = 0
                        THEN Append(wh_data, [name |-> warehouse, quantity |-> qty])
                        ELSE [wh_data EXCEPT ![widx].quantity = @ + qty]
       IN  StockProductsLoop(
             [known EXCEPT ![at].quantity = @ + qty, ![at].by_warehouse = counted],
             raw_stocks, k + 1, hash_salt)

calculate_total_stocks_by_product(raw_stocks, hash_salt) ==
  LET products == StockProductsLoop(<<>>, raw_stocks, 1, hash_salt)
  IN  SortByQuantity(
        [i \in 1..Len(products) |->
           [products[i] EXCEPT !.warehouses_count = Len(products[i].by_warehouse),
                               !.by_warehouse = SortByQuantity(@)]])

\* item['color'] = get_article_color(item.get('article', ''))
ColoredProducts(stocks_by_product, hash_salt) ==
  [i \in 1..Len(stocks_by_product) |->
     LET item == stocks_by_product[i]
     IN  [f \in DOMAIN item \cup {"color"} |->
            IF f = "color" THEN get_article_color(Get(item, "article", <<>>), hash_salt)
            ELSE item[f]]]

\* dashboard["stocks"][mp]: a Raise when the chart construction raises
Stocks(data, mp_type, hash_salt) ==
  LET chart_data == BuildChart(Get(data, "stocks_warehouse_products", <<>>),
                               Get(data, "all_articles", <<>>), mp_type, hash_salt)
  IN  IF Raised(chart_data) THEN chart_data
      ELSE [by_warehouse |-> Prefix(Get(data, "stocks_by_warehouse", <<>>), TopN),
            by_product   |-> IF mp_type = "wb"
                             THEN calculate_total_stocks_by_product(
                                    Get(data, "raw_stocks", <<>>), hash_salt)
                             ELSE ColoredProducts(Get(data, "stocks_by_product", <<>>),
                                                  hash_salt),
            chart_data   |-> chart_data,
            all_articles |-> Get(data, "all_articles", <<>>)]

\* the redemption records: raw_sales of WB, finance_redemptions of Ozon
RawRedemptions(data, mp_type) ==
  IF mp_type = "wb" THEN Get(data, "raw_sales", <<>>)
  ELSE Get(data, "finance_redemptions", <<>>)

\* d_str of a redemption record
RedemptionDateStr(item, mp_type) ==
  IF mp_type = "wb" THEN OrderDateStr(item, "wb")
  ELSE Get(item, "operation_date", None)

RECURSIVE FilterRedemptionsKeepUnparsed(_, _, _, _, _)
\* mutant: a record with no date is taken into every period
FilterRedemptionsKeepUnparsed(records, k, p, today, mp_type) ==
  IF k > Len(records) THEN <<>>
  ELSE LET dt   == parse_date(RedemptionDateStr(records[k], mp_type))
           rest == FilterRedemptionsKeepUnparsed(records, k + 1, p, today, mp_type)
       IN  IF dt = None THEN <<records[k]>> \o rest
           ELSE IF InPeriod(dt.day, p, today) THEN <<records[k]>> \o rest
           ELSE rest

RECURSIVE FilterRedemptions(_, _, _, _, _)
\* 'for item in raw_sales' / 'for txn in finance_redemptions'
FilterRedemptions(records, k, p, today, mp_type) ==
  IF k > Len(records) THEN <<>>
  ELSE LET dt   == parse_date(RedemptionDateStr(records[k], mp_type))
           rest == FilterRedemptions(records, k + 1, p, today, mp_type)
       IN  IF dt = None THEN rest
           ELSE IF InPeriod(dt.day, p, today) THEN <<records[k]>> \o rest
           ELSE rest

\* abs(x)
Abs(x) ==
  IF x < 0 THEN 0 - x ELSE x

\* item.get('forPay', 0) or 0 for WB, abs(txn.get('amount', 0)) for Ozon
RedemptionAmount(item, mp_type) ==
  IF mp_type = "wb"
  THEN (IF IsNull(item, "forPay") THEN 0 ELSE Get(item, "forPay", 0))
  ELSE Abs(Get(item, "amount", 0))

RECURSIVE RedemptionsRevenue(_, _)
RedemptionsRevenue(filtered, mp_type) ==
  IF filtered = <<>> THEN 0
  ELSE RedemptionAmount(Head(filtered), mp_type) + RedemptionsRevenue(Tail(filtered), mp_type)

\* the one element of a set of one element: Only({F(x) : x \in {e}}) is
\* F(e) with e computed once
Only(S) ==
  CHOOSE x \in S : TRUE

\* mutant: the two redemption figures are those of the orders of the period
WithRedemptionsOfOrders(agg, filtered, mp_type) ==
  IF Raised(agg) THEN agg
  ELSE [f \in DOMAIN agg \cup {"redemptions_revenue", "redemptions_count"} |->
          IF f = "redemptions_revenue" THEN agg.revenue
          ELSE IF f = "redemptions_count" THEN agg.orders_count
          ELSE agg[f]]

\* mutant: the two redemption figures are added when the period has a
\* redemption
WithRedemptionsWhenAny(agg, filtered, mp_type) ==
  IF Raised(agg) \/ filtered = <<>> THEN agg
  ELSE [f \in DOMAIN agg \cup {"redemptions_revenue", "redemptions_count"} |->
          IF f = "redemptions_revenue" THEN RedemptionsRevenue(filtered, mp_type)
          ELSE IF f = "redemptions_count" THEN Len(filtered)
          ELSE agg[f]]

\* agg with its two redemption figures; abs(None) raises TypeError
WithRedemptions(agg, filtered, mp_type) ==
  IF Raised(agg) THEN agg
  ELSE IF mp_type = "ozon" /\ \E k \in 1..Len(filtered) : IsNull(filtered[k], "amount")
  THEN Raise("TypeError")
  ELSE [f \in DOMAIN agg \cup {"redemptions_revenue", "redemptions_count"} |->
          IF f = "redemptions_revenue" THEN RedemptionsRevenue(filtered, mp_type)
          ELSE IF f = "redemptions_count" THEN Len(filtered)
          ELSE agg[f]]

\* dashboard["period_data"][p_key][mp]: the aggregate of the orders of the
\* period and the figures of its redemptions
PeriodEntry(data, p, today, mp_type) ==
  Only({ WithRedemptions(agg, filtered, mp_type) :
           agg \in {aggregate_sales_data(
                      FilterSales(Get(data, "raw_orders", <<>>), 1, p, today, mp_type),
                      mp_type)},
           filtered \in {FilterRedemptions(RawRedemptions(data, mp_type), 1, p, today,
                                           mp_type)} })

\* the period of periods_config with this key
PeriodOf(key) ==
  CHOOSE q \in {periods_config[i] : i \in 1..Len(periods_config)} : q.key = key

\* the stock total, the stocks and the period entries of a marketplace, or
\* the exception of the first of them that raised
PartOf(data, stocks, periods) ==
  IF Raised(stocks) THEN stocks
  ELSE IF \E key \in PeriodKeys : Raised(periods[key]) THEN Raise("TypeError")
  ELSE [stock_total |-> Get(data, "total_stock_value", 0),
        stocks      |-> stocks,
        periods     |-> periods]

\* what 'if wb_data:' / 'if ozon_data:' puts into the document
MarketplacePart(data, mp_type, today, hash_salt) ==
  Only({ PartOf(data, stocks, periods) :
           stocks \in {Stocks(data, mp_type, hash_salt)},
           periods \in {[key \in PeriodKeys |->
                           PeriodEntry(data, PeriodOf(key), today, mp_type)]} })

\* mutant: the totals are those of WB alone
SummaryWbOnly(wb_stocks, ozon_stocks, today_wb, today_ozon) ==
  [wb_stocks         |-> wb_stocks,
   ozon_stocks       |-> ozon_stocks,
   total_stocks      |-> wb_stocks,
   total_sales_today |-> Get(today_wb, "revenue", 0)]

\* dashboard["summary"]
Summary(wb_stocks, ozon_stocks, today_wb, today_ozon) ==
  [wb_stocks         |-> wb_stocks,
   ozon_stocks       |-> ozon_stocks,
   total_stocks      |-> wb_stocks + ozon_stocks,
   total_sales_today |-> Get(today_wb, "revenue", 0) + Get(today_ozon, "revenue", 0)]

\* "Online" if wb_data else "No Data"
Status(data) ==
  IF HasData(data) THEN "Online" ELSE "No Data"

\* the document as it is dumped, given the parts of the marketplaces
Dashboard(wb_data, ozon_data, wb, ozon, now) ==
  LET loaded      == {m \in MarketplaceTypes : (IF m = "wb" THEN wb ELSE ozon) # None}
      part(m)     == IF m = "wb" THEN wb ELSE ozon
      period_data == [key \in PeriodKeys |-> [m \in loaded |-> part(m).periods[key]]]
  IN  [last_update  |-> StrfTime(now),
       summary      |-> Summary(IF wb = None THEN 0 ELSE wb.stock_total,
                                IF ozon = None THEN 0 ELSE ozon.stock_total,
                                Get(period_data["today"], "wb", EmptyDict),
                                Get(period_data["today"], "ozon", EmptyDict)),
       marketplaces |-> << [name |-> "Wildberries", status |-> Status(wb_data)],
                           [name |-> "Ozon", status |-> Status(ozon_data)] >>,
       stocks       |-> [wb   |-> IF wb = None THEN EmptyDict ELSE wb.stocks,
                         ozon |-> IF ozon = None THEN EmptyDict ELSE ozon.stocks],
       period_data  |-> period_data]

\* prepare(): the document it writes, or the exception that ends it before
\* the output file is opened
prepare(files, now, hash_salt) ==
  LET wb_data   == load_json(files.wb)
      ozon_data == IF Raised(wb_data) THEN None ELSE load_json(files.ozon)
      today     == DateOrdinal(now.year, now.month, now.day)
  IN  IF Raised(wb_data) THEN wb_data
      ELSE IF Raised(ozon_data) THEN ozon_data
      ELSE Only({ IF Raised(wb) THEN wb
                  ELSE IF Raised(ozon) THEN ozon
                  ELSE Dashboard(wb_data, ozon_data, wb, ozon, now) :
                    wb \in {IF HasData(wb_data)
                            THEN MarketplacePart(wb_data, "wb", today, hash_salt)
                            ELSE None},
                    ozon \in {IF HasData(ozon_data)
                              THEN MarketplacePart(ozon_data, "ozon", today, hash_salt)
                              ELSE None} })

(***************************************************************************)
(* Stock lists given to the chart builder.                                 *)
(***************************************************************************)
StockWarehouseNames ==
  <<
    <<1050, 1086, 1083, 1077, 1076, 1080, 1085, 1086>>,  \* 'Коледино': WB 'Центральный', Ozon 'Прочие'
    <<1069, 1083, 1077, 1082, 1090, 1088, 1086, 1089, 1090, 1072, 1083, 1100>>,  \* 'Электросталь': WB 'Центральный', Ozon 'Прочие'
    <<1057, 1055, 1041, 32, 1064, 1091, 1096, 1072, 1088, 1099>>,  \* 'СПБ Шушары': WB 'Северо-Западный', Ozon 'Санкт-Петербург и СЗО'
    <<1053, 1077, 1074, 1080, 1085, 1085, 1086, 1084, 1099, 1089, 1089, 1082>>,  \* 'Невинномысск': WB 'Южный + Северо-Кавказский', Ozon 'Невинномысск'
    <<1057, 1082, 1083, 1072, 1076>>  \* 'Склад': WB 'Прочие', Ozon 'Прочие'
  >>

\* the salts of the process that builds a chart
ChartSalts ==
  {0, 6}

StockArticles ==
  <<
    <<83, 70, 48, 49, 50, 53>>,  \* 'SF0125'
    <<83, 77, 48, 50, 53, 48>>,  \* 'SM0250'
    <<88, 88, 49>>  \* 'XX1'
  >>

\* the products of a warehouse: one article, two articles, an article that
\* all_articles may lack, a negative quantity
StockProducts ==
  << (StockArticles[1] :> 10),
     (StockArticles[1] :> 5) @@ (StockArticles[2] :> 3),
     (StockArticles[2] :> 2) @@ (StockArticles[3] :> 1),
     (StockArticles[3] :> (0 - 1)) >>

\* all_articles: every article, two of the three in another order, one
\* article twice, none
ArticleLists ==
  { <<StockArticles[1], StockArticles[2], StockArticles[3]>>,
    <<StockArticles[2], StockArticles[1]>>,
    <<StockArticles[1], StockArticles[1], StockArticles[2], StockArticles[3]>>,
    <<>> }

\* stocks_warehouse_products: 0..MaxWarehouses warehouses of distinct names,
\* the k-th with the products StockProducts[k + shift]
StockLists ==
  LET m == Len(StockProducts)
      Warehouse(name, products) ==
        [name |-> name, total |-> SumValues(products), products |-> products]
  IN  UNION {{[k \in 1..n |->
                 Warehouse(StockWarehouseNames[ix[k]], StockProducts[((k + shift) % m) + 1])] :
              ix \in {f \in [1..n -> 1..Len(StockWarehouseNames)] :
                        \A a, b \in 1..n : a # b => f[a] # f[b]},
              shift \in 0..(m - 1)} :
             n \in 0..MaxWarehouses}

(***************************************************************************)
(* Order lists given to the period filter.  day is the calendar date of    *)
(* the timestamp as a date ordinal, 0 when the text is no timestamp.       *)
(***************************************************************************)
TimestampPool ==
  <<
    \* '2024-06-10T08:15:00': WB style, no zone -> 2024-06-10
    [text |-> <<50, 48, 50, 52, 45, 48, 54, 45, 49, 48, 84, 48, 56, 58, 49, 53, 58, 48, 48>>,
     day |-> 739047],
    \* '2024-06-09T23:59:59Z': trailing Z -> 2024-06-09
    [text |-> <<50, 48, 50, 52, 45, 48, 54, 45, 48, 57, 84, 50, 51, 58, 53, 57, 58, 53, 57, 90>>,
     day |-> 739046],
    \* '2024-06-09': bare date -> 2024-06-09
    [text |-> <<50, 48, 50, 52, 45, 48, 54, 45, 48, 57>>,
     day |-> 739046],
    \* '2024-06-08T10:00:00.123456Z': Ozon style, microseconds and Z -> 2024-06-08
    [text |-> <<50, 48, 50, 52, 45, 48, 54, 45, 48, 56, 84, 49, 48, 58, 48, 48, 58, 48, 48, 46, 49, 50, 51, 52, 53, 54, 90>>,
     day |-> 739045],
    \* '2024-06-04T00:00:00+03:00': zone offset -> 2024-06-04
    [text |-> <<50, 48, 50, 52, 45, 48, 54, 45, 48, 52, 84, 48, 48, 58, 48, 48, 58, 48, 48, 43, 48, 51, 58, 48, 48>>,
     day |-> 739041],
    \* '2024-06-03T12:00:00' -> 2024-06-03
    [text |-> <<50, 48, 50, 52, 45, 48, 54, 45, 48, 51, 84, 49, 50, 58, 48, 48, 58, 48, 48>>,
     day |-> 739040],
    \* '2024-05-12T12:00:00Z' -> 2024-05-12
    [text |-> <<50, 48, 50, 52, 45, 48, 53, 45, 49, 50, 84, 49, 50, 58, 48, 48, 58, 48, 48, 90>>,
     day |-> 739018],
    \* '2024-05-11T12:00:00' -> 2024-05-11
    [text |-> <<50, 48, 50, 52, 45, 48, 53, 45, 49, 49, 84, 49, 50, 58, 48, 48, 58, 48, 48>>,
     day |-> 739017],
    \* '2024-06-11T00:00:01': the day after 2024-06-10 -> 2024-06-11
    [text |-> <<50, 48, 50, 52, 45, 48, 54, 45, 49, 49, 84, 48, 48, 58, 48, 48, 58, 48, 49>>,
     day |-> 739048],
    \* '2024-02-29T10:00:00': leap day -> 2024-02-29
    [text |-> <<50, 48, 50, 52, 45, 48, 50, 45, 50, 57, 84, 49, 48, 58, 48, 48, 58, 48, 48>>,
     day |-> 738945],
    \* '2024-6-9': not ISO, read by strptime('%Y-%m-%d') -> 2024-06-09
    [text |-> <<50, 48, 50, 52, 45, 54, 45, 57>>,
     day |-> 739046],
    \* '09.06.2024': unparsable -> None
    [text |-> <<48, 57, 46, 48, 54, 46, 50, 48, 50, 52>>,
     day |-> 0],
    \* '2024-02-30T00:00:00': no such day: unparsable -> None
    [text |-> <<50, 48, 50, 52, 45, 48, 50, 45, 51, 48, 84, 48, 48, 58, 48, 48, 58, 48, 48>>,
     day |-> 0],
    \* '': empty -> None
    [text |-> <<>>,
     day |-> 0]
  >>

\* the values of date.today(): 2024-06-10, the day after, and 2024-03-01,
\* whose yesterday is a leap day
Todays ==
  {DateOrdinal(2024, 6, 10), DateOrdinal(2024, 6, 11), DateOrdinal(2024, 3, 1)}

\* one order per timestamp; for WB also an order with dateFull alone, one
\* with an empty date and a dateFull, and one with neither
DatedOrders(mp_type) ==
  IF mp_type = "wb"
  THEN [t \in 1..Len(TimestampPool) |-> [date |-> TimestampPool[t].text]]
       \o << [dateFull |-> TimestampPool[2].text],
             [date |-> <<>>, dateFull |-> TimestampPool[3].text],
             [priceWithDisc |-> 100] >>
  ELSE [t \in 1..Len(TimestampPool) |-> [created_at |-> TimestampPool[t].text]]
       \o << [posting_number |-> 0] >>

\* raw_orders: 0..MaxOrders of these, numbered by their place in the list
\* (srid for WB, posting_number for Ozon)
OrderLists(mp_type) ==
  LET pool == DatedOrders(mp_type)
      id   == IF mp_type = "wb" THEN "srid" ELSE "posting_number"
      Numbered(item, k) ==
        [f \in DOMAIN item \cup {id} |-> IF f = id THEN k ELSE item[f]]
  IN  UNION {{[k \in 1..n |-> Numbered(pool[ix[k]], k)] : ix \in [1..n -> 1..Len(pool)]} :
             n \in 0..MaxOrders}

(***************************************************************************)
(* Order lists given to the aggregator.                                    *)
(***************************************************************************)
\* WB orders: a tie in revenue between two warehouses (1, 2), a repeated
\* warehouse and article (3), an order with no price (4), with no dimensions
\* (5), with no price and a quantity of 3 (6)
WbItems ==
  << [priceWithDisc |-> 100, warehouseName |-> "wh01", regionName |-> "reg01",
      supplierArticle |-> "art01"],
     [priceWithDisc |-> 100, warehouseName |-> "wh02", regionName |-> "reg02",
      supplierArticle |-> "art02"],
     [priceWithDisc |-> 250, warehouseName |-> "wh02", regionName |-> "reg01",
      supplierArticle |-> "art01"],
     [warehouseName |-> "wh01", regionName |-> "reg02", supplierArticle |-> "art02"],
     [priceWithDisc |-> 150],
     [warehouseName |-> "wh03", regionName |-> "reg03", supplierArticle |-> "art03",
      quantity |-> 3] >>

\* Ozon postings: one line item (1), two line items with a quantity of 2 and no
\* cluster_to (2), no financial and analytics data (3), no product list (4),
\* a tie in revenue with 1 (5), a line item with no price and a quantity of 3 (6)
OzonItems ==
  << [financial_data |-> [products |-> <<[price |-> 100, quantity |-> 1]>>,
                          cluster_to |-> "reg01"],
      analytics_data |-> [warehouse_name |-> "wh01", city |-> "city01"],
      products |-> <<[offer_id |-> "art01", price |-> 100, quantity |-> 1]>>],
     [financial_data |-> [products |-> <<[price |-> 100, quantity |-> 2],
                                         [price |-> 50, quantity |-> 1]>>,
                          cluster_to |-> ""],
      analytics_data |-> [warehouse_name |-> "wh02", city |-> "city01"],
      products |-> <<[offer_id |-> "art01", price |-> 100, quantity |-> 2],
                     [offer_id |-> "art02", price |-> 50, quantity |-> 1]>>],
     [products |-> <<[offer_id |-> "art01", price |-> 100]>>],
     [financial_data |-> [products |-> <<[price |-> 100, quantity |-> 1]>>],
      analytics_data |-> [warehouse_name |-> "wh02"]],
     [financial_data |-> [products |-> <<[price |-> 100, quantity |-> 1]>>,
                          cluster_to |-> "reg02"],
      analytics_data |-> [warehouse_name |-> "wh02", city |-> "city02"],
      products |-> <<[offer_id |-> "art02", price |-> 100, quantity |-> 1]>>],
     [financial_data |-> [products |-> <<[quantity |-> 3]>>, cluster_to |-> "reg03"],
      analytics_data |-> [warehouse_name |-> "wh03", city |-> "city01"],
      products |-> <<[offer_id |-> "art03", quantity |-> 3]>>] >>

ItemPool(mp_type) ==
  IF mp_type = "wb" THEN WbItems ELSE OzonItems

ShortSales(mp_type) ==
  LET pool == ItemPool(mp_type)
  IN  UNION {{[k \in 1..n |-> pool[ix[k]]] : ix \in [1..n -> 1..Len(pool)]} :
             n \in 0..MaxSales}

WarehousePool ==
  <<"wh01", "wh02", "wh03", "wh04", "wh05", "wh06", "wh07", "wh08", "wh09", "wh10", "wh11", "wh12", "wh13", "wh14", "wh15", "wh16", "wh17", "wh18", "wh19", "wh20">>

RegionPool ==
  <<"reg01", "reg02", "reg03", "reg04", "reg05", "reg06", "reg07", "reg08", "reg09", "reg10", "reg11", "reg12", "reg13", "reg14", "reg15", "reg16", "reg17", "reg18", "reg19", "reg20">>

ArticlePool ==
  <<"art01", "art02", "art03", "art04", "art05", "art06", "art07", "art08", "art09", "art10", "art11", "art12", "art13", "art14", "art15", "art16", "art17", "art18", "art19", "art20">>

\* revenue of the i-th of n records: rising, falling, all equal, repeating
LongPatterns ==
  {"rising", "falling", "equal", "repeating"}

LongPrice(i, n, pattern) ==
  CASE pattern = "rising"    -> 10 * i
    [] pattern = "falling"   -> 10 * (n - i + 1)
    [] pattern = "equal"     -> 50
    [] pattern = "repeating" -> 10 * (i % 3)

LongItem(i, n, pattern, mp_type) ==
  IF mp_type = "wb"
  THEN [priceWithDisc |-> LongPrice(i, n, pattern), warehouseName |-> WarehousePool[i],
        regionName |-> RegionPool[i], supplierArticle |-> ArticlePool[i]]
  ELSE [financial_data |-> [products |-> <<[price |-> LongPrice(i, n, pattern),
                                            quantity |-> 1]>>,
                            cluster_to |-> RegionPool[i]],
        analytics_data |-> [warehouse_name |-> WarehousePool[i]],
        products |-> <<[offer_id |-> ArticlePool[i],
                        price |-> LongPrice(i, n, pattern), quantity |-> 1]>>]

LongSales(mp_type) ==
  {[i \in 1..n |-> LongItem(i, n, pattern, mp_type)] :
     n \in (MaxLong - 2)..MaxLong, pattern \in LongPatterns}

SalesLists(mp_type) ==
  ShortSales(mp_type) \cup LongSales(mp_type)

(***************************************************************************)
(* Values of the variables an operation does not use.                      *)
(***************************************************************************)
ClusterIdle ==
  in_warehouse = <<>> /\ out_cluster = None

AggIdle ==
  in_sales = <<>> /\ out_agg = None

ChartIdle ==
  in_stocks_wp = <<>> /\ in_articles = <<>> /\ out_chart = None

PeriodIdle ==
  in_today = 0 /\ in_orders = <<>> /\ out_periods = None

ColorIdle ==
  in_article = <<>> /\ in_salts = <<>> /\ out_colors = <<>>

RunIdle ==
  subprocesses = <<>> /\ results = <<>> /\ exit_status = None

PrepareIdle ==
  fs = None /\ in_now = None /\ out_file = None /\ runs = <<>>

(***************************************************************************)
(* SpecCluster: get_warehouse_cluster applied to one warehouse name.       *)
(***************************************************************************)
InitCluster ==
  /\ pc = "start"
  /\ in_mp \in MarketplaceTypes
  /\ in_warehouse \in WarehouseNames
  /\ out_cluster = None
  /\ AggIdle /\ ChartIdle /\ PeriodIdle /\ ColorIdle /\ PrepareIdle /\ salt = 0
  /\ RunIdle

Classify ==
  /\ pc = "start"
  /\ out_cluster' = get_warehouse_cluster(in_warehouse, in_mp)
  /\ pc' = "done"
  /\ UNCHANGED <<runVars, in_mp, in_warehouse, aggVars, chartVars, periodVars,
               colorVars, prepareVars, salt>>

NextCluster ==
  Classify

SpecCluster ==
  InitCluster /\ [][NextCluster]_vars

(***************************************************************************)
(* SpecAgg: aggregate_sales_data applied to one order list.                *)
(***************************************************************************)
InitAgg ==
  /\ pc = "start"
  /\ in_mp \in MarketplaceTypes
  /\ in_sales \in SalesLists(in_mp)
  /\ out_agg = None
  /\ ClusterIdle /\ ChartIdle /\ PeriodIdle /\ ColorIdle /\ PrepareIdle /\ salt = 0
  /\ RunIdle

Aggregate ==
  /\ pc = "start"
  /\ out_agg' = aggregate_sales_data(in_sales, in_mp)
  /\ pc' = "done"
  /\ UNCHANGED <<runVars, in_mp, in_sales, clusterVars, chartVars, periodVars,
               colorVars, prepareVars, salt>>

NextAgg ==
  Aggregate

SpecAgg ==
  InitAgg /\ [][NextAgg]_vars

(***************************************************************************)
(* SpecPeriod: the period filter of prepare applied to one raw_orders.     *)
(***************************************************************************)
InitPeriod ==
  /\ pc = "start"
  /\ in_mp \in MarketplaceTypes
  /\ in_today \in Todays
  /\ in_orders \in OrderLists(in_mp)
  /\ out_periods = None
  /\ ClusterIdle /\ AggIdle /\ ChartIdle /\ ColorIdle /\ PrepareIdle /\ salt = 0
  /\ RunIdle

Filter ==
  /\ pc = "start"
  /\ out_periods' = FilterPeriods(in_orders, in_today, in_mp)
  /\ pc' = "done"
  /\ UNCHANGED <<runVars, in_mp, in_today, in_orders, clusterVars, aggVars, chartVars,
               colorVars, prepareVars, salt>>

NextPeriod ==
  Filter

SpecPeriod ==
  InitPeriod /\ [][NextPeriod]_vars

(***************************************************************************)
(* SpecChart: the chart construction of prepare applied to one stock list. *)
(***************************************************************************)
\* the stock totals of 'Коледино' with 10 and 'Невинномысск' with 5 of
\* 'SF0125', in the two orders
ScenarioStockLists ==
  LET koledino == [name |-> StockWarehouseNames[1], total |-> 10,
                   products |-> (StockArticles[1] :> 10)]
      nevinnomyssk == [name |-> StockWarehouseNames[4], total |-> 5,
                       products |-> (StockArticles[1] :> 5)]
  IN  { <<koledino, nevinnomyssk>>, <<nevinnomyssk, koledino>> }

InitChart ==
  /\ pc = "start"
  /\ in_mp \in MarketplaceTypes
  /\ in_stocks_wp \in StockLists \cup ScenarioStockLists
  /\ in_articles \in ArticleLists
  /\ out_chart = None
  /\ salt \in ChartSalts
  /\ ClusterIdle /\ AggIdle /\ PeriodIdle /\ ColorIdle /\ PrepareIdle
  /\ RunIdle

BuildChartData ==
  /\ pc = "start"
  /\ out_chart' = BuildChart(in_stocks_wp, in_articles, in_mp, salt)
  /\ pc' = "done"
  /\ UNCHANGED <<runVars, in_mp, in_stocks_wp, in_articles, clusterVars, aggVars, periodVars,
               colorVars, prepareVars, salt>>

NextChart ==
  BuildChartData

SpecChart ==
  InitChart /\ [][NextChart]_vars

(***************************************************************************)
(* Articles given to the colorizer: what decides their color (a key of the *)
(* table, a prefix, the palette) and, unless it is the palette, the color. *)
(***************************************************************************)
ColorArticles ==
  <<
    \* 'SF0125': override -> #614701
    [text |-> <<83, 70, 48, 49, 50, 53>>, kind |-> "override", color |-> "#614701"],
    \* 'sf0125': override -> #614701
    [text |-> <<115, 102, 48, 49, 50, 53>>, kind |-> "override", color |-> "#614701"],
    \* 'SF0250': override -> #80651b
    [text |-> <<83, 70, 48, 50, 53, 48>>, kind |-> "override", color |-> "#80651b"],
    \* 'SM0500': override -> #78011b
    [text |-> <<83, 77, 48, 53, 48, 48>>, kind |-> "override", color |-> "#78011b"],
    \* 'FSF300': override -> #015054
    [text |-> <<70, 83, 70, 51, 48, 48>>, kind |-> "override", color |-> "#015054"],
    \* 'FSF1': prefix -> #015054
    [text |-> <<70, 83, 70, 49>>, kind |-> "prefix", color |-> "#015054"],
    \* 'fsf9': prefix -> #015054
    [text |-> <<102, 115, 102, 57>>, kind |-> "prefix", color |-> "#015054"],
    \* 'SF9999': prefix -> #80651b
    [text |-> <<83, 70, 57, 57, 57, 57>>, kind |-> "prefix", color |-> "#80651b"],
    \* 'sm1': prefix -> #78011b
    [text |-> <<115, 109, 49>>, kind |-> "prefix", color |-> "#78011b"],
    \* 'XX1': fallback
    [text |-> <<88, 88, 49>>, kind |-> "fallback", color |-> ""],
    \* 'Unknown': fallback
    [text |-> <<85, 110, 107, 110, 111, 119, 110>>, kind |-> "fallback", color |-> ""],
    \* '': fallback
    [text |-> <<>>, kind |-> "fallback", color |-> ""],
    \* 'S': fallback
    [text |-> <<83>>, kind |-> "fallback", color |-> ""],
    \* 'XSF1': fallback
    [text |-> <<88, 83, 70, 49>>, kind |-> "fallback", color |-> ""],
    \* 'Сф1': fallback
    [text |-> <<1057, 1092, 49>>, kind |-> "fallback", color |-> ""]
  >>

(***************************************************************************)
(* SpecColor: get_article_color applied to one article, twice in one       *)
(* process and once in another process.                                    *)
(***************************************************************************)
InitColor ==
  /\ pc = "start"
  /\ in_mp = "wb"
  /\ in_article \in {ColorArticles[i].text : i \in 1..Len(ColorArticles)}
  /\ in_salts \in [1..2 -> HashSalts]
  /\ out_colors = <<>>
  /\ ClusterIdle /\ AggIdle /\ ChartIdle /\ PeriodIdle /\ PrepareIdle /\ salt = 0
  /\ RunIdle

Colorize ==
  /\ pc = "start"
  /\ out_colors' = << get_article_color(in_article, in_salts[1]),
                      get_article_color(in_article, in_salts[1]),
                      get_article_color(in_article, in_salts[2]) >>
  /\ pc' = "done"
  /\ UNCHANGED <<runVars, in_mp, in_article, in_salts, clusterVars, aggVars, chartVars,
                 periodVars, prepareVars, salt>>

NextColor ==
  Colorize

SpecColor ==
  InitColor /\ [][NextColor]_vars

(***************************************************************************)
(* Records with absent fields: every subset of the fields of a WB order,   *)
(* of an Ozon order and of its nested dicts, and of a stock record; a      *)
(* price that is null.                                                     *)
(***************************************************************************)
\* d restricted to the keys of ks
Restrict(d, ks) ==
  [k \in DOMAIN d \cap ks |-> d[k]]

FullWbOrder ==
  [priceWithDisc |-> 100, warehouseName |-> "wh01", regionName |-> "reg01",
   supplierArticle |-> "art01"]

SparseWbOrders ==
  {Restrict(FullWbOrder, ks) : ks \in SUBSET DOMAIN FullWbOrder}
  \cup {[warehouseName |-> "wh01", null |-> {"priceWithDisc"}]}

FullOzonOrder ==
  [financial_data |-> [products |-> <<[price |-> 100, quantity |-> 2]>>,
                       cluster_to |-> "reg01"],
   analytics_data |-> [warehouse_name |-> "wh01", city |-> "city01"],
   products |-> <<[offer_id |-> "art01", price |-> 100, quantity |-> 2]>>]

SparseOzonOrders ==
  {Restrict(FullOzonOrder, ks) : ks \in SUBSET DOMAIN FullOzonOrder}
  \cup {[FullOzonOrder EXCEPT !.financial_data = Restrict(@, ks)] :
          ks \in SUBSET {"products", "cluster_to"}}
  \cup {[FullOzonOrder EXCEPT !.financial_data.cluster_to = "",
                              !.analytics_data = Restrict(@, ks)] :
          ks \in SUBSET {"warehouse_name", "city"}}
  \cup {[FullOzonOrder EXCEPT !.financial_data.products = <<Restrict(@[1], ks)>>] :
          ks \in SUBSET {"price", "quantity"}}
  \cup {[FullOzonOrder EXCEPT !.products = <<Restrict(@[1], ks)>>] :
          ks \in SUBSET {"offer_id", "price", "quantity"}}
  \cup {[FullOzonOrder EXCEPT !.financial_data.products =
                                <<[quantity |-> 2, null |-> {"price"}]>>],
        [FullOzonOrder EXCEPT !.products =
                                <<[offer_id |-> "art01", quantity |-> 2,
                                   null |-> {"price"}]>>]}

SparseOrders(mp_type) ==
  IF mp_type = "wb" THEN SparseWbOrders ELSE SparseOzonOrders

SparseSales(mp_type) ==
  UNION {[1..n -> SparseOrders(mp_type)] : n \in 1..MaxSparse}

FullStock ==
  [name |-> StockWarehouseNames[1], total |-> 10, products |-> StockProducts[1]]

SparseStocks ==
  {Restrict(FullStock, ks) : ks \in SUBSET DOMAIN FullStock}

SparseStockLists ==
  UNION {[1..n -> SparseStocks] : n \in 1..MaxSparse}

(***************************************************************************)
(* SpecSparse: the chart construction and the aggregation of prepare, in   *)
(* the order of prepare, applied to records with absent fields.  Either    *)
(* the stock list or the order list is the sparse one.  An exception ends  *)
(* the run: pc = "raised".                                                 *)
(***************************************************************************)
InitSparse ==
  /\ pc = "start"
  /\ in_mp \in MarketplaceTypes
  /\ in_articles = <<StockArticles[1]>>
  /\ \/ in_stocks_wp = <<FullStock>> /\ in_sales \in SparseSales(in_mp)
     \/ in_stocks_wp \in SparseStockLists /\ in_sales = <<>>
  /\ out_chart = None /\ out_agg = None
  /\ salt = 0
  /\ ClusterIdle /\ PeriodIdle /\ ColorIdle /\ PrepareIdle
  /\ RunIdle

SparseChart ==
  /\ pc = "start"
  /\ out_chart' = BuildChart(in_stocks_wp, in_articles, in_mp, salt)
  /\ pc' = IF Raised(out_chart') THEN "raised" ELSE "charted"
  /\ UNCHANGED <<runVars, in_mp, in_stocks_wp, in_articles, aggVars, clusterVars, periodVars,
                 colorVars, prepareVars, salt>>

SparseAggregate ==
  /\ pc = "charted"
  /\ out_agg' = aggregate_sales_data(in_sales, in_mp)
  /\ pc' = IF Raised(out_agg') THEN "raised" ELSE "done"
  /\ UNCHANGED <<runVars, in_mp, in_sales, chartVars, clusterVars, periodVars,
                 colorVars, prepareVars, salt>>

NextSparse ==
  SparseChart \/ SparseAggregate

SpecSparse ==
  InitSparse /\ [][NextSparse]_vars

(***************************************************************************)
(* SpecPrepare: prepare is run, in a fresh process each time, on two raw   *)
(* files and a clock that stay as they are.                                *)
(***************************************************************************)
\* the clock: 2024-06-10 09:05 and 2024-03-01 23:59
Nows ==
  { [year |-> 2024, month |-> 6, day |-> 10, hour |-> 9, minute |-> 5],
    [year |-> 2024, month |-> 3, day |-> 1, hour |-> 23, minute |-> 59] }

\* the salts of the processes that run prepare
PrepareSalts ==
  {0, 6}

\* the stock part of wb_raw_data.json: an override article and a palette
\* article in two warehouses; an override article alone
WbStockParts ==
  { [total_stock_value |-> 15,
     stocks_by_warehouse |-> << [name |-> StockWarehouseNames[1], quantity |-> 10],
                                [name |-> StockWarehouseNames[4], quantity |-> 5] >>,
     raw_stocks |-> << [supplierArticle |-> StockArticles[1], quantityFull |-> 10,
                        warehouseName |-> StockWarehouseNames[1]],
                       [supplierArticle |-> StockArticles[3], quantityFull |-> 5,
                        warehouseName |-> StockWarehouseNames[4]] >>,
     stocks_warehouse_products |->
       << [name |-> StockWarehouseNames[1], total |-> 10,
           products |-> (StockArticles[1] :> 10)],
          [name |-> StockWarehouseNames[4], total |-> 5,
           products |-> (StockArticles[3] :> 5)] >>,
     all_articles |-> <<StockArticles[1], StockArticles[3]>>],
    [total_stock_value |-> 10,
     stocks_by_warehouse |-> << [name |-> StockWarehouseNames[1], quantity |-> 10] >>,
     raw_stocks |-> << [supplierArticle |-> StockArticles[1], quantityFull |-> 4,
                        warehouseName |-> StockWarehouseNames[1]],
                       [supplierArticle |-> StockArticles[1], quantityFull |-> 6,
                        warehouseName |-> StockWarehouseNames[2]] >>,
     stocks_warehouse_products |->
       << [name |-> StockWarehouseNames[1], total |-> 10,
           products |-> (StockArticles[1] :> 10)] >>,
     all_articles |-> <<StockArticles[1]>>] }

\* raw_orders of WB: orders of 2024-06-10, of no date that can be read, of
\* 2024-06-09, of no date at all and of 2024-02-29; orders of an empty date
\* and a dateFull of 2024-06-09, of 2024-02-30 and of 2024-06-04
WbOrderParts ==
  { [raw_orders |->
       << [date |-> TimestampPool[1].text, priceWithDisc |-> 100,
           warehouseName |-> "wh01", regionName |-> "reg01", supplierArticle |-> "art01"],
          [date |-> TimestampPool[12].text, priceWithDisc |-> 250,
           warehouseName |-> "wh03", regionName |-> "reg03", supplierArticle |-> "art03"],
          [date |-> TimestampPool[2].text, priceWithDisc |-> 150,
           warehouseName |-> "wh02", regionName |-> "reg01", supplierArticle |-> "art02"],
          [priceWithDisc |-> 500,
           warehouseName |-> "wh03", regionName |-> "reg03", supplierArticle |-> "art03"],
          [date |-> TimestampPool[10].text, priceWithDisc |-> 70,
           warehouseName |-> "wh01", regionName |-> "reg02", supplierArticle |-> "art01"] >>],
    [raw_orders |->
       << [date |-> <<>>, dateFull |-> TimestampPool[3].text, priceWithDisc |-> 100,
           warehouseName |-> "wh01", regionName |-> "reg01", supplierArticle |-> "art01"],
          [date |-> TimestampPool[13].text, priceWithDisc |-> 40,
           warehouseName |-> "wh03", regionName |-> "reg03", supplierArticle |-> "art03"],
          [date |-> TimestampPool[5].text, priceWithDisc |-> 30,
           warehouseName |-> "wh02", regionName |-> "reg02", supplierArticle |-> "art02"] >>] }

\* raw_sales of WB: redemptions of 2024-06-10, of no date that can be read,
\* of 2024-06-08, of no date at all and of an empty date; none
WbRedemptionParts ==
  { [raw_sales |->
       << [date |-> TimestampPool[1].text, forPay |-> 80],
          [date |-> TimestampPool[12].text, forPay |-> 999],
          [date |-> TimestampPool[4].text, forPay |-> 20],
          [forPay |-> 5],
          [date |-> <<>>, forPay |-> 7] >>],
    [raw_sales |-> <<>>] }

\* the stock part of ozon_raw_data.json: a palette article and a product
\* with no article; an override article alone
OzonStockParts ==
  { [total_stock_value |-> 7,
     stocks_by_warehouse |-> << [name |-> StockWarehouseNames[3], quantity |-> 7] >>,
     stocks_by_product |-> << [article |-> StockArticles[3], quantity |-> 5],
                              [quantity |-> 2] >>,
     stocks_warehouse_products |->
       << [name |-> StockWarehouseNames[3], total |-> 7,
           products |-> (StockArticles[3] :> 5) @@ (StockArticles[2] :> 2)] >>,
     all_articles |-> <<StockArticles[3], StockArticles[2]>>],
    [total_stock_value |-> 3,
     stocks_by_warehouse |-> << [name |-> StockWarehouseNames[5], quantity |-> 3] >>,
     stocks_by_product |-> << [article |-> StockArticles[2], quantity |-> 3] >>,
     stocks_warehouse_products |->
       << [name |-> StockWarehouseNames[5], total |-> 3,
           products |-> (StockArticles[2] :> 3)] >>,
     all_articles |-> <<StockArticles[2]>>] }

\* the posting of OzonItems with this created_at
OzonPosting(i, created_at) ==
  [f \in DOMAIN OzonItems[i] \cup {"created_at"} |->
     IF f = "created_at" THEN created_at ELSE OzonItems[i][f]]

\* raw_orders of Ozon: postings of 2024-06-10, of no date that can be read,
\* of 2024-06-09 and of no date at all; postings of 2024-02-29, of an empty
\* date and of 2024-06-08
OzonOrderParts ==
  { [raw_orders |->
       << OzonPosting(1, TimestampPool[1].text),
          OzonPosting(6, TimestampPool[12].text),
          OzonPosting(2, TimestampPool[2].text),
          OzonItems[5] >>],
    [raw_orders |->
       << OzonPosting(4, TimestampPool[10].text),
          OzonPosting(6, <<>>),
          OzonPosting(1, TimestampPool[4].text) >>] }

\* finance_redemptions of Ozon: transactions of 2024-06-10, of 2024-02-30,
\* of 2024-06-09 and of no date at all; none
OzonRedemptionParts ==
  { [finance_redemptions |->
       << [operation_date |-> TimestampPool[1].text, amount |-> 0 - 80],
          [operation_date |-> TimestampPool[13].text, amount |-> 0 - 999],
          [operation_date |-> TimestampPool[3].text, amount |-> 20],
          [amount |-> 0 - 5] >>],
    [finance_redemptions |-> <<>>] }

\* a raw file: missing, no UTF-8 text, no JSON, an empty dict, or the dict
\* that a stock part, an order part and a redemption part make up
RawFiles(stock_parts, order_parts, redemption_parts) ==
  { [kind |-> "missing"], [kind |-> "undecodable"], [kind |-> "malformed"],
    [kind |-> "json", value |-> EmptyDict] }
  \cup { [kind |-> "json", value |-> s @@ o @@ r] :
           s \in stock_parts, o \in order_parts, r \in redemption_parts }
  \cup { [kind |-> "json", value |-> o] : o \in order_parts }

InitPrepare ==
  /\ pc = "start"
  /\ fs \in [wb : RawFiles(WbStockParts, WbOrderParts, WbRedemptionParts),
             ozon : RawFiles(OzonStockParts, OzonOrderParts, OzonRedemptionParts)]
  /\ in_now \in Nows
  /\ salt = 0
  /\ out_file = None
  /\ runs = <<>>
  /\ in_mp = "wb"
  /\ ClusterIdle /\ AggIdle /\ ChartIdle /\ PeriodIdle /\ ColorIdle
  /\ RunIdle

\* one run of the script: a process with a salt of its own runs prepare; the
\* output file is written unless an exception ends the run before
RunPrepare ==
  /\ Len(runs) < MaxRuns
  /\ \E hash_salt \in PrepareSalts :
       \E result \in {prepare(fs, in_now, hash_salt)} :
         /\ salt' = hash_salt
         /\ runs' = Append(runs, result)
         /\ out_file' = IF Raised(result) THEN out_file ELSE result
         /\ pc' = IF Raised(result) THEN "raised" ELSE "done"
  /\ UNCHANGED <<runVars, fs, in_now, in_mp, clusterVars, aggVars, chartVars, periodVars, colorVars>>

NextPrepare ==
  RunPrepare

SpecPrepare ==
  InitPrepare /\ [][NextPrepare]_vars

(***************************************************************************)
(* run_all.py: main runs the three scripts one after the other, each in a  *)
(* child process that subprocess.run waits for, collects what run_script   *)
(* returns in the dict results, and the process exits with 0 when every    *)
(* value of results is True and with 1 when not.  Writing to the console   *)
(* is taken to succeed.                                                    *)
(***************************************************************************)
scripts ==
  <<"fetch_wb_data.py", "fetch_ozon_data.py", "prepare_dashboard_data.py">>

\* the return codes of a child: 0, 1 (an uncaught exception), 2, and -9 (the
\* child was killed)
ReturnCodes ==
  {0, 1, 2, 0 - 9}

\* mutant: every child that exited of its own accord counts as a success
run_script_unless_killed(outcome) ==
  IF outcome.state = "exited" THEN outcome.returncode >= 0 ELSE FALSE

\* what run_script returns: True when the child exited with return code 0,
\* False when it exited with another one and when subprocess.run raised
run_script(outcome) ==
  IF outcome.state = "exited" THEN outcome.returncode = 0 ELSE FALSE

\* sum(results.values())
success_count(res) ==
  Cardinality({script \in DOMAIN res : res[script]})

\* len(results)
total_count(res) ==
  Cardinality(DOMAIN res)

\* what main returns
main(res) ==
  success_count(res) = total_count(res)

\* the place in scripts that 'for script in scripts' is at
LoopPosition ==
  Cardinality(DOMAIN results) + 1

(***************************************************************************)
(* SpecRun: one run of run_all.py.  pc is "loop" at the head of the loop   *)
(* of main, "waiting" while subprocess.run waits for the child, "done"     *)
(* after sys.exit.  The children end: the fetchers put a timeout on every  *)
(* request, and prepare reads two files and writes one.                    *)
(***************************************************************************)
InitRun ==
  /\ pc = "loop"
  /\ subprocesses = <<>>
  /\ results = <<>>
  /\ exit_status = None
  /\ in_mp = "wb" /\ salt = 0
  /\ ClusterIdle /\ AggIdle /\ ChartIdle /\ PeriodIdle /\ ColorIdle /\ PrepareIdle

\* subprocess.run starts the child of the next script and waits for it
SubprocessStarts ==
  /\ pc = "loop"
  /\ LoopPosition <= Len(scripts)
  /\ subprocesses' = Append(subprocesses,
                            [script |-> scripts[LoopPosition], state |-> "running"])
  /\ pc' = "waiting"
  /\ UNCHANGED <<results, exit_status, in_mp, salt, clusterVars, aggVars, chartVars,
               periodVars, colorVars, prepareVars>>

\* subprocess.run raises before there is a child: run_script returns False
SubprocessRaises ==
  /\ pc = "loop"
  /\ LoopPosition <= Len(scripts)
  /\ \E outcome \in {[script |-> scripts[LoopPosition], state |-> "not started"]} :
       /\ subprocesses' = Append(subprocesses, outcome)
       /\ results' = (outcome.script :> run_script(outcome)) @@ results
  /\ pc' = "loop"
  /\ UNCHANGED <<exit_status, in_mp, salt, clusterVars, aggVars, chartVars,
               periodVars, colorVars, prepareVars>>

\* the child exits: run_script returns, and main stores what it returned
SubprocessReturns ==
  /\ pc = "waiting"
  /\ \E returncode \in ReturnCodes :
       \E outcome \in {[script |-> subprocesses[Len(subprocesses)].script,
                        state |-> "exited", returncode |-> returncode]} :
         /\ subprocesses' = [subprocesses EXCEPT ![Len(subprocesses)] = outcome]
         /\ results' = (outcome.script :> run_script(outcome)) @@ results
  /\ pc' = "loop"
  /\ UNCHANGED <<exit_status, in_mp, salt, clusterVars, aggVars, chartVars,
               periodVars, colorVars, prepareVars>>

\* the loop is over: success = main(); sys.exit(0 if success else 1)
Exit ==
  /\ pc = "loop"
  /\ LoopPosition > Len(scripts)
  /\ exit_status' = [code |-> IF main(results) THEN 0 ELSE 1]
  /\ pc' = "done"
  /\ UNCHANGED <<subprocesses, results, in_mp, salt, clusterVars, aggVars, chartVars,
               periodVars, colorVars, prepareVars>>

NextRun ==
  \/ SubprocessStarts
  \/ SubprocessRaises
  \/ SubprocessReturns
  \/ Exit

SpecRun ==
  InitRun /\ [][NextRun]_vars /\ WF_vars(NextRun)

(***************************************************************************)
(* Properties of the classifier (SpecCluster).                             *)
(***************************************************************************)
\* cluster i of the table has a keyword that occurs in the lower-cased name
ClusterMatches(table, i, warehouse_name) ==
  \E j \in 1..Len(table[i].keywords) :
    LET keyword == table[i].keywords[j]
    IN  \E at \in 0..(Len(warehouse_name) - Len(keyword)) :
          \A k \in 1..Len(keyword) : LowerChar(warehouse_name[at + k]) = keyword[k]

\* the place of the first occurrence of a keyword of cluster i in the name
FirstOccurrence(table, i, warehouse_name) ==
  LET places == {at \in 0..Len(warehouse_name) :
                   \E j \in 1..Len(table[i].keywords) :
                     LET keyword == table[i].keywords[j]
                     IN  /\ at + Len(keyword) <= Len(warehouse_name)
                         /\ \A k \in 1..Len(keyword) :
                              LowerChar(warehouse_name[at + k]) = keyword[k]}
  IN  CHOOSE at \in places : \A other \in places : at <= other

\* C4 (cluster totality): the classifier returns one cluster name, a name of
\* the marketplace's table or the fallback, and it returns the fallback if
\* and only if no keyword of the table is a substring of the lower-cased name.
C4_ClusterTotality ==
  pc = "done" =>
    LET table == ClusterTable(in_mp)
    IN  /\ out_cluster \in {table[i].name : i \in 1..Len(table)} \cup {FALLBACK_CLUSTER}
        /\ (out_cluster = FALLBACK_CLUSTER) <=>
             ~ \E i \in 1..Len(table) : ClusterMatches(table, i, in_warehouse)

\* 'Томск' is classified for WB, whose table has no keyword in it, and an
\* upper-case 'КАЗАНЬ' is classified for WB by its lower-case keyword
C4_Witness ==
  /\ pc = "done"
  /\ in_mp = "wb"
  /\ \/ in_warehouse = NameWords[6] /\ out_cluster = FALLBACK_CLUSTER
     \/ in_warehouse = NameWords[2] /\ out_cluster = WB_CLUSTERS[3].name

\* C5 (first declared match wins): the returned cluster is the matching
\* cluster that comes first in the declared order of the table.
C5_FirstDeclaredMatchWins ==
  pc = "done" =>
    LET table == ClusterTable(in_mp)
    IN  \A i \in 1..Len(table) :
          ( /\ ClusterMatches(table, i, in_warehouse)
            /\ \A h \in 1..(i - 1) : ~ ClusterMatches(table, h, in_warehouse) )
          => out_cluster = table[i].name

\* two clusters match, the keyword of the later one occurs first in the name,
\* and the earlier cluster is returned
C5_Witness ==
  /\ pc = "done"
  /\ LET table == ClusterTable(in_mp)
     IN  \E i \in 1..Len(table), h \in 1..Len(table) :
           /\ i < h
           /\ ClusterMatches(table, i, in_warehouse)
           /\ ClusterMatches(table, h, in_warehouse)
           /\ FirstOccurrence(table, h, in_warehouse) < FirstOccurrence(table, i, in_warehouse)
           /\ out_cluster = table[i].name

(***************************************************************************)
(* Properties of the aggregator (SpecAgg).                                 *)
(***************************************************************************)
RECURSIVE SumField(_, _)
\* the sum of field f over the records of a sequence
SumField(seq, f) ==
  IF seq = <<>> THEN 0 ELSE seq[1][f] + SumField(Tail(seq), f)

\* the line items of order k that feed the product aggregation of Ozon
LineItems(k) ==
  Get(in_sales[k], "products", <<>>)

\* the keys met in the input, per dimension
WarehouseOf(k) ==
  ExtractFields(in_sales[k], in_mp).wh_name

RegionOf(k) ==
  ExtractFields(in_sales[k], in_mp).region

PriceOf(k) ==
  ExtractFields(in_sales[k], in_mp).price

WarehouseKeys ==
  {WarehouseOf(k) : k \in 1..Len(in_sales)}

RegionKeys ==
  {RegionOf(k) : k \in 1..Len(in_sales)}

ProductKeys ==
  IF in_mp = "wb"
  THEN {ExtractFields(in_sales[k], in_mp).article : k \in 1..Len(in_sales)}
  ELSE UNION {{Get(LineItems(k)[j], "offer_id", "Unknown") : j \in 1..Len(LineItems(k))} :
              k \in 1..Len(in_sales)}

\* a bucket's totals are the sums of its breakdown's
Additive(bucket, breakdown) ==
  /\ bucket.revenue = SumField(bucket[breakdown], "revenue")
  /\ bucket.count = SumField(bucket[breakdown], "count")

WarehousesAdditive ==
  \A p \in 1..Len(out_agg.sales_by_warehouse) :
    Additive(out_agg.sales_by_warehouse[p], "by_product")

ProductsAdditive ==
  \A p \in 1..Len(out_agg.sales_by_product) :
    Additive(out_agg.sales_by_product[p], "by_warehouse")

\* C1 as claimed (additivity for either marketplace): every bucket of
\* sales_by_warehouse and of sales_by_product has the revenue and the count
\* of its breakdown entries summed.
C1_AdditivityAsClaimed ==
  pc = "done" => WarehousesAdditive /\ ProductsAdditive

\* C1 as amended: additivity holds for every bucket of sales_by_product of
\* both marketplaces and of sales_by_warehouse of WB; a bucket of an Ozon
\* sales_by_warehouse has an empty by_product breakdown.
C1_Additivity ==
  pc = "done" =>
    /\ ProductsAdditive
    /\ in_mp = "wb" => WarehousesAdditive
    /\ in_mp = "ozon" =>
         \A p \in 1..Len(out_agg.sales_by_warehouse) :
           out_agg.sales_by_warehouse[p].by_product = <<>>

\* a warehouse bucket and a product bucket with two breakdown entries each,
\* the product one with a line item of quantity 2
C1_Witness ==
  /\ pc = "done"
  /\ \/ /\ in_mp = "wb"
        /\ \E p \in 1..Len(out_agg.sales_by_warehouse) :
             Len(out_agg.sales_by_warehouse[p].by_product) >= 2
     \/ /\ in_mp = "ozon"
        /\ \E p \in 1..Len(out_agg.sales_by_product) :
             /\ Len(out_agg.sales_by_product[p].by_warehouse) >= 2
             /\ out_agg.sales_by_product[p].count > Len(out_agg.sales_by_product[p].by_warehouse)

RECURSIVE LineItemUnits(_)
\* the quantities of a list of line items summed
LineItemUnits(prods) ==
  IF prods = <<>> THEN 0
  ELSE Get(prods[1], "quantity", 1) + LineItemUnits(Tail(prods))

RECURSIVE OrderUnits(_)
\* the quantities of the line items of orders 1..k summed
OrderUnits(k) ==
  IF k = 0 THEN 0 ELSE LineItemUnits(LineItems(k)) + OrderUnits(k - 1)

\* C2 as claimed (partition completeness): in each of the three aggregations
\* the counts of the returned buckets sum to the number of input records.
C2_PartitionAsClaimed ==
  pc = "done" =>
    /\ SumField(out_agg.sales_by_warehouse, "count") = out_agg.orders_count
    /\ SumField(out_agg.sales_by_region, "count") = out_agg.orders_count
    /\ SumField(out_agg.sales_by_product, "count") = out_agg.orders_count

\* C2 as amended: orders_count is the number of input records; the counts of
\* sales_by_warehouse (sales_by_region) sum to orders_count exactly when there
\* are at most 15 distinct warehouses (regions), and to less otherwise; the
\* counts of a WB sales_by_product sum to orders_count, those of an Ozon
\* sales_by_product to the total quantity of the orders' line items.
C2_Partition ==
  pc = "done" =>
    /\ out_agg.orders_count = Len(in_sales)
    /\ SumField(out_agg.sales_by_warehouse, "count") <= out_agg.orders_count
    /\ (SumField(out_agg.sales_by_warehouse, "count") = out_agg.orders_count)
         <=> Cardinality(WarehouseKeys) <= TopN
    /\ SumField(out_agg.sales_by_region, "count") <= out_agg.orders_count
    /\ (SumField(out_agg.sales_by_region, "count") = out_agg.orders_count)
         <=> Cardinality(RegionKeys) <= TopN
    /\ SumField(out_agg.sales_by_product, "count") =
         IF in_mp = "wb" THEN out_agg.orders_count ELSE OrderUnits(Len(in_sales))

\* several records fall into one bucket, one of them with no revenue
C2_Witness ==
  /\ pc = "done"
  /\ Len(in_sales) >= 2
  /\ Cardinality(RegionKeys) < Len(in_sales)
  /\ \E k \in 1..Len(in_sales) : PriceOf(k) = 0

\* where a key is met first in the input: the order, then the line item
FirstWarehouse(key) ==
  CHOOSE k \in 1..Len(in_sales) :
    WarehouseOf(k) = key /\ \A h \in 1..(k - 1) : WarehouseOf(h) # key

FirstRegion(key) ==
  CHOOSE k \in 1..Len(in_sales) :
    RegionOf(k) = key /\ \A h \in 1..(k - 1) : RegionOf(h) # key

ProductAt(k, j) ==
  IF in_mp = "wb" THEN ExtractFields(in_sales[k], in_mp).article
  ELSE Get(LineItems(k)[j], "offer_id", "Unknown")

ProductPlaces ==
  UNION {{<<k, j>> : j \in 1..(IF in_mp = "wb" THEN 1 ELSE Len(LineItems(k)))} :
         k \in 1..Len(in_sales)}

Before(a, b) ==
  a[1] < b[1] \/ (a[1] = b[1] /\ a[2] < b[2])

FirstProduct(key) ==
  CHOOSE a \in ProductPlaces :
    /\ ProductAt(a[1], a[2]) = key
    /\ \A b \in ProductPlaces : ProductAt(b[1], b[2]) = key => ~ Before(b, a)

\* C9 (bucket order): each of the three lists is in descending order of
\* revenue, and buckets of equal revenue are in the order in which their
\* keys were first met in the input.
C9_BucketOrder ==
  pc = "done" =>
    /\ \A p, q \in 1..Len(out_agg.sales_by_warehouse) :
         p < q =>
           LET a == out_agg.sales_by_warehouse[p]
               b == out_agg.sales_by_warehouse[q]
           IN  /\ a.revenue >= b.revenue
               /\ a.revenue = b.revenue => FirstWarehouse(a.name) < FirstWarehouse(b.name)
    /\ \A p, q \in 1..Len(out_agg.sales_by_region) :
         p < q =>
           LET a == out_agg.sales_by_region[p]
               b == out_agg.sales_by_region[q]
           IN  /\ a.revenue >= b.revenue
               /\ a.revenue = b.revenue => FirstRegion(a.name) < FirstRegion(b.name)
    /\ \A p, q \in 1..Len(out_agg.sales_by_product) :
         p < q =>
           LET a == out_agg.sales_by_product[p]
               b == out_agg.sales_by_product[q]
           IN  /\ a.revenue >= b.revenue
               /\ a.revenue = b.revenue =>
                    Before(FirstProduct(a.article), FirstProduct(b.article))

\* a tie in revenue between two warehouses behind a bucket of higher revenue
\* that was met last
C9_Witness ==
  /\ pc = "done"
  /\ Len(out_agg.sales_by_warehouse) = 3
  /\ out_agg.sales_by_warehouse[2].revenue = out_agg.sales_by_warehouse[3].revenue
  /\ out_agg.sales_by_warehouse[1].revenue > out_agg.sales_by_warehouse[2].revenue
  /\ FirstWarehouse(out_agg.sales_by_warehouse[1].name) = 3

\* the revenue of all the orders of one warehouse / region
RECURSIVE WarehouseRevenue(_, _)
WarehouseRevenue(key, k) ==
  IF k = 0 THEN 0
  ELSE (IF WarehouseOf(k) = key THEN PriceOf(k) ELSE 0) + WarehouseRevenue(key, k - 1)

RECURSIVE RegionRevenue(_, _)
RegionRevenue(key, k) ==
  IF k = 0 THEN 0
  ELSE (IF RegionOf(k) = key THEN PriceOf(k) ELSE 0) + RegionRevenue(key, k - 1)

SmallerOf(a, b) ==
  IF a < b THEN a ELSE b

\* C10 (top-N truncation): sales_by_warehouse and sales_by_region hold
\* min(15, number of distinct keys) buckets, of distinct keys, and no key
\* left out has a higher revenue than a bucket kept; sales_by_product holds
\* one bucket for every distinct product of the input.
C10_TopN ==
  pc = "done" =>
    LET whs  == out_agg.sales_by_warehouse
        regs == out_agg.sales_by_region
        prods == out_agg.sales_by_product
        whNames  == {whs[p].name : p \in 1..Len(whs)}
        regNames == {regs[p].name : p \in 1..Len(regs)}
    IN  /\ Len(whs) = SmallerOf(TopN, Cardinality(WarehouseKeys))
        /\ Cardinality(whNames) = Len(whs) /\ whNames \subseteq WarehouseKeys
        /\ \A p \in 1..Len(whs) :
             /\ whs[p].revenue = WarehouseRevenue(whs[p].name, Len(in_sales))
             /\ \A key \in WarehouseKeys \ whNames :
                  WarehouseRevenue(key, Len(in_sales)) <= whs[p].revenue
        /\ Len(regs) = SmallerOf(TopN, Cardinality(RegionKeys))
        /\ Cardinality(regNames) = Len(regs) /\ regNames \subseteq RegionKeys
        /\ \A p \in 1..Len(regs) :
             /\ regs[p].revenue = RegionRevenue(regs[p].name, Len(in_sales))
             /\ \A key \in RegionKeys \ regNames :
                  RegionRevenue(key, Len(in_sales)) <= regs[p].revenue
        /\ Len(prods) = Cardinality(ProductKeys)
        /\ {prods[p].article : p \in 1..Len(prods)} = ProductKeys

\* more than 15 warehouses, regions and products: 15, 15 and all of them
C10_Witness ==
  /\ pc = "done"
  /\ Cardinality(WarehouseKeys) > TopN
  /\ Cardinality(RegionKeys) > TopN
  /\ Len(out_agg.sales_by_warehouse) = TopN
  /\ Len(out_agg.sales_by_region) = TopN
  /\ Len(out_agg.sales_by_product) > TopN

\* the orders of one warehouse / region, and the places (order, line item)
\* of one product
WarehouseOrders(key) ==
  {k \in 1..Len(in_sales) : WarehouseOf(k) = key}

RegionOrders(key) ==
  {k \in 1..Len(in_sales) : RegionOf(k) = key}

PlacesOf(article) ==
  {a \in ProductPlaces : ProductAt(a[1], a[2]) = article}

\* the unit count of an order: its quantity (1 if it has none) for WB, the
\* quantities of its line items for Ozon
UnitsOfOrder(k) ==
  IF in_mp = "wb" THEN Get(in_sales[k], "quantity", 1)
  ELSE LineItemUnits(LineItems(k))

\* the unit count and the unit price of a place
UnitsAt(a) ==
  IF in_mp = "wb" THEN Get(in_sales[a[1]], "quantity", 1)
  ELSE Get(LineItems(a[1])[a[2]], "quantity", 1)

UnitPriceAt(a) ==
  IF in_mp = "wb" THEN Get(in_sales[a[1]], "priceWithDisc", 0)
  ELSE Get(LineItems(a[1])[a[2]], "price", 0)

RECURSIVE OrderUnitsIn(_)
OrderUnitsIn(orders) ==
  IF orders = {} THEN 0
  ELSE LET k == CHOOSE x \in orders : TRUE
       IN  UnitsOfOrder(k) + OrderUnitsIn(orders \ {k})

RECURSIVE UnitsIn(_)
UnitsIn(places) ==
  IF places = {} THEN 0
  ELSE LET a == CHOOSE x \in places : TRUE
       IN  UnitsAt(a) + UnitsIn(places \ {a})

RECURSIVE UnitRevenueIn(_)
\* unit_price x quantity summed over places
UnitRevenueIn(places) ==
  IF places = {} THEN 0
  ELSE LET a == CHOOSE x \in places : TRUE
       IN  UnitPriceAt(a) * UnitsAt(a) + UnitRevenueIn(places \ {a})

RECURSIVE OrderRevenueIn(_)
\* the price of the order summed over places
OrderRevenueIn(places) ==
  IF places = {} THEN 0
  ELSE LET a == CHOOSE x \in places : TRUE
       IN  PriceOf(a[1]) + OrderRevenueIn(places \ {a})

\* C11 as claimed (unit-count accumulation): the count of every bucket of
\* the three aggregations is the unit count (quantity) of its records summed,
\* and the revenue of a product bucket unit_price x quantity summed.
C11_UnitCountAsClaimed ==
  pc = "done" =>
    /\ \A p \in 1..Len(out_agg.sales_by_warehouse) :
         out_agg.sales_by_warehouse[p].count =
           OrderUnitsIn(WarehouseOrders(out_agg.sales_by_warehouse[p].name))
    /\ \A p \in 1..Len(out_agg.sales_by_region) :
         out_agg.sales_by_region[p].count =
           OrderUnitsIn(RegionOrders(out_agg.sales_by_region[p].name))
    /\ \A p \in 1..Len(out_agg.sales_by_product) :
         /\ out_agg.sales_by_product[p].count =
              UnitsIn(PlacesOf(out_agg.sales_by_product[p].article))
         /\ out_agg.sales_by_product[p].revenue =
              UnitRevenueIn(PlacesOf(out_agg.sales_by_product[p].article))

\* C11 as amended: a warehouse or region bucket counts its orders, one each,
\* and sums their prices; a WB product bucket does the same; an Ozon product
\* bucket counts the quantities of its line items (1 for a line item with no
\* quantity) and sums price x quantity, a line item with no price adding 0.
C11_UnitCount ==
  pc = "done" =>
    /\ \A p \in 1..Len(out_agg.sales_by_warehouse) :
         LET b == out_agg.sales_by_warehouse[p]
         IN  /\ b.count = Cardinality(WarehouseOrders(b.name))
             /\ b.revenue = WarehouseRevenue(b.name, Len(in_sales))
    /\ \A p \in 1..Len(out_agg.sales_by_region) :
         LET b == out_agg.sales_by_region[p]
         IN  /\ b.count = Cardinality(RegionOrders(b.name))
             /\ b.revenue = RegionRevenue(b.name, Len(in_sales))
    /\ \A p \in 1..Len(out_agg.sales_by_product) :
         LET b == out_agg.sales_by_product[p]
         IN  IF in_mp = "wb"
             THEN /\ b.count = Cardinality(PlacesOf(b.article))
                  /\ b.revenue = OrderRevenueIn(PlacesOf(b.article))
             ELSE /\ b.count = UnitsIn(PlacesOf(b.article))
                  /\ b.revenue = UnitRevenueIn(PlacesOf(b.article))

\* an Ozon order whose one line item has no price and a quantity of 3 is the
\* only record of its buckets: the product bucket has count 3 and revenue 0,
\* the warehouse and the region bucket count 1 and revenue 0
C11_Witness ==
  /\ pc = "done" /\ in_mp = "ozon"
  /\ Len(in_sales) = 2
  /\ in_sales[2] = OzonItems[6]
  /\ in_sales[1] # OzonItems[6]
  /\ \E p \in 1..Len(out_agg.sales_by_product) :
       /\ out_agg.sales_by_product[p].article = "art03"
       /\ out_agg.sales_by_product[p].count = 3
       /\ out_agg.sales_by_product[p].revenue = 0
  /\ \E p \in 1..Len(out_agg.sales_by_warehouse) :
       /\ out_agg.sales_by_warehouse[p].name = "wh03"
       /\ out_agg.sales_by_warehouse[p].count = 1
  /\ \E p \in 1..Len(out_agg.sales_by_region) :
       /\ out_agg.sales_by_region[p].name = "reg03"
       /\ out_agg.sales_by_region[p].count = 1

(***************************************************************************)
(* Properties of records with absent fields (SpecSparse).                  *)
(***************************************************************************)
\* the run ended, with a result or with an exception
Ended ==
  pc \in {"done", "raised"}

\* a number of a dict, an absent or null one read as the default
NumberOr(d, k, default) ==
  IF k \in DOMAIN d /\ ~ IsNull(d, k) THEN d[k] ELSE default

RECURSIVE PriceTimesQuantity(_)
PriceTimesQuantity(prods) ==
  IF prods = <<>> THEN 0
  ELSE NumberOr(prods[1], "price", 0) * NumberOr(prods[1], "quantity", 1)
       + PriceTimesQuantity(Tail(prods))

\* the price of order k with an absent or null price read as 0
PriceOrZero(k) ==
  IF in_mp = "wb" THEN NumberOr(in_sales[k], "priceWithDisc", 0)
  ELSE IF "financial_data" \in DOMAIN in_sales[k]
          /\ "products" \in DOMAIN in_sales[k].financial_data
       THEN PriceTimesQuantity(in_sales[k].financial_data.products)
       ELSE 0

RECURSIVE TotalPriceOrZero(_)
TotalPriceOrZero(k) ==
  IF k = 0 THEN 0 ELSE PriceOrZero(k) + TotalPriceOrZero(k - 1)

\* order k has a price that is absent or null, its own or of a product
PriceMissing(k) ==
  IF in_mp = "wb"
  THEN "priceWithDisc" \notin DOMAIN in_sales[k] \/ IsNull(in_sales[k], "priceWithDisc")
  ELSE \/ "financial_data" \notin DOMAIN in_sales[k]
       \/ "products" \notin DOMAIN in_sales[k].financial_data
       \/ \E j \in 1..Len(in_sales[k].financial_data.products) :
            LET prod == in_sales[k].financial_data.products[j]
            IN  "price" \notin DOMAIN prod \/ IsNull(prod, "price")
       \/ \E j \in 1..Len(LineItems(k)) :
            "price" \notin DOMAIN LineItems(k)[j] \/ IsNull(LineItems(k)[j], "price")

\* C13 (absent price): an order list in which some order has an absent or
\* null price is aggregated without an exception; every order is counted in
\* orders_count and in the buckets of its warehouse and of its region (and of
\* its product for WB), and the revenue is the sum of the prices that are
\* there.
C13_AbsentPrice ==
  (Ended /\ ~ Raised(out_chart) /\ \E k \in 1..Len(in_sales) : PriceMissing(k)) =>
    /\ ~ Raised(out_agg)
    /\ out_agg.orders_count = Len(in_sales)
    /\ out_agg.revenue = TotalPriceOrZero(Len(in_sales))
    /\ SumField(out_agg.sales_by_warehouse, "count") = Len(in_sales)
    /\ SumField(out_agg.sales_by_warehouse, "revenue") = TotalPriceOrZero(Len(in_sales))
    /\ SumField(out_agg.sales_by_region, "count") = Len(in_sales)
    /\ SumField(out_agg.sales_by_region, "revenue") = TotalPriceOrZero(Len(in_sales))
    /\ in_mp = "wb" => SumField(out_agg.sales_by_product, "count") = Len(in_sales)

\* no key of a record of the input, at any depth, is null
NoNullIn(item) ==
  /\ "null" \notin DOMAIN item
  /\ \A f \in {"financial_data", "analytics_data"} :
       f \in DOMAIN item => "null" \notin DOMAIN item[f]
  /\ \A j \in 1..Len(Get(Get(item, "financial_data", EmptyDict), "products", <<>>)) :
       "null" \notin DOMAIN item.financial_data.products[j]
  /\ \A j \in 1..Len(Get(item, "products", <<>>)) :
       "null" \notin DOMAIN item.products[j]

\* C14 (missing record fields never raise): with fields absent from order
\* and stock records, and none null, the chart construction and the
\* aggregation end without an exception; an order with no warehouse, region
\* or (for WB) article is in the bucket 'Unknown', and an absent price counts
\* as 0.
C14_MissingFieldsNeverRaise ==
  (Ended /\ \A k \in 1..Len(in_sales) : NoNullIn(in_sales[k])) =>
    /\ ~ Raised(out_chart)
    /\ ~ Raised(out_agg)
    /\ out_agg.revenue = TotalPriceOrZero(Len(in_sales))
    /\ \A k \in 1..Len(in_sales) :
         /\ ( \/ (in_mp = "wb" /\ "warehouseName" \notin DOMAIN in_sales[k])
              \/ (in_mp = "ozon" /\ "analytics_data" \notin DOMAIN in_sales[k]) )
            => \E p \in 1..Len(out_agg.sales_by_warehouse) :
                 out_agg.sales_by_warehouse[p].name = "Unknown"
         /\ (in_mp = "wb" /\ "regionName" \notin DOMAIN in_sales[k])
            => \E p \in 1..Len(out_agg.sales_by_region) :
                 out_agg.sales_by_region[p].name = "Unknown"
         /\ (in_mp = "wb" /\ "supplierArticle" \notin DOMAIN in_sales[k])
            => \E p \in 1..Len(out_agg.sales_by_product) :
                 out_agg.sales_by_product[p].article = "Unknown"

(***************************************************************************)
(* Properties of the period filter (SpecPeriod).                           *)
(***************************************************************************)
\* the timestamp of the k-th order: date, or dateFull when there is no date
\* or an empty one, for WB; created_at for Ozon
TimestampOf(k) ==
  LET item == in_orders[k]
  IN  IF in_mp = "ozon"
      THEN (IF "created_at" \in DOMAIN item THEN item.created_at ELSE <<>>)
      ELSE IF "date" \in DOMAIN item /\ item.date # <<>> THEN item.date
      ELSE IF "dateFull" \in DOMAIN item THEN item.dateFull
      ELSE <<>>

\* its calendar date, 0 when it has none
CalendarDay(k) ==
  IF \E t \in 1..Len(TimestampPool) : TimestampPool[t].text = TimestampOf(k)
  THEN (CHOOSE e \in {TimestampPool[t] : t \in 1..Len(TimestampPool)} :
          e.text = TimestampOf(k)).day
  ELSE 0

\* the k-th order is in the filtered list of the period
Included(key, k) ==
  \E q \in 1..Len(out_periods[key]) :
    out_periods[key][q] = in_orders[k]

\* C3 (window membership): an order with a parsable timestamp is in the
\* filtered list of 'yesterday' iff its calendar date is today - 1, and in
\* that of 'today', 'days_3', 'days_7', 'days_30' iff its calendar date is
\* on or after today - 0, 2, 6, 29.
C3_WindowMembership ==
  pc = "done" =>
    \A k \in 1..Len(in_orders) :
      CalendarDay(k) # 0 =>
        /\ Included("today", k)     <=> CalendarDay(k) >= in_today
        /\ Included("yesterday", k) <=> CalendarDay(k) = in_today - 1
        /\ Included("days_3", k)    <=> CalendarDay(k) >= in_today - 2
        /\ Included("days_7", k)    <=> CalendarDay(k) >= in_today - 6
        /\ Included("days_30", k)   <=> CalendarDay(k) >= in_today - 29

\* today is 2024-06-10 and an order of 2024-06-09 is not in 'today', is in
\* 'yesterday' and is in 'days_7', next to an order of 2024-06-10
C3_Witness ==
  /\ pc = "done"
  /\ in_today = DateOrdinal(2024, 6, 10)
  /\ Len(in_orders) = 2
  /\ TimestampOf(1) = TimestampPool[2].text
  /\ TimestampOf(2) = TimestampPool[1].text
  /\ ~ Included("today", 1) /\ Included("yesterday", 1) /\ Included("days_7", 1)
  /\ Included("today", 2) /\ ~ Included("yesterday", 2)

(***************************************************************************)
(* Properties of the chart dataset builder (SpecChart).                    *)
(***************************************************************************)
RECURSIVE SumNumbers(_)
SumNumbers(seq) ==
  IF seq = <<>> THEN 0 ELSE seq[1] + SumNumbers(Tail(seq))

\* the quantity of the article in the warehouse of this name, 0 if it stocks none
StockedQuantity(name, article) ==
  LET wh == CHOOSE w \in {in_stocks_wp[k] : k \in 1..Len(in_stocks_wp)} : w.name = name
  IN  IF article \in DOMAIN wh.products THEN wh.products[article] ELSE 0

\* the place of the warehouse of this name in stocks_warehouse_products
IncomingIndex(name) ==
  CHOOSE k \in 1..Len(in_stocks_wp) : in_stocks_wp[k].name = name

\* C6 (chart alignment): labels has as many entries as the clusters' index
\* ranges hold, one per warehouse, and every series has one value per label,
\* the quantity of its article in the warehouse of that label, 0 when the
\* warehouse stocks none.
C6_ChartAlignment ==
  (pc = "done" /\ out_chart # None) =>
    LET labels == out_chart.labels
        clusters == out_chart.clusters
        datasets == out_chart.datasets
    IN  /\ Len(labels) = Len(in_stocks_wp)
        /\ Len(labels) =
             SumNumbers([c \in 1..Len(clusters) |->
                           clusters[c].end_index - clusters[c].start_index + 1])
        /\ \A d \in 1..Len(datasets) :
             /\ Len(datasets[d].data) = Len(labels)
             /\ \A i \in 1..Len(labels) :
                  datasets[d].data[i] = StockedQuantity(labels[i], datasets[d].label)

\* two clusters, the labels not in incoming order, two series, one of them
\* with a 0 for a warehouse that does not stock its article
C6_Witness ==
  /\ pc = "done" /\ out_chart # None
  /\ Len(out_chart.clusters) >= 2
  /\ Len(out_chart.datasets) >= 2
  /\ out_chart.labels # [k \in 1..Len(in_stocks_wp) |-> in_stocks_wp[k].name]
  /\ \E d \in 1..Len(out_chart.datasets), i \in 1..Len(out_chart.labels) :
       /\ out_chart.datasets[d].data[i] = 0
       /\ out_chart.datasets[d].label \notin
            DOMAIN in_stocks_wp[IncomingIndex(out_chart.labels[i])].products

\* the total_stock of the clusters summed, and the values of the series summed
ClusterTotals ==
  SumNumbers([c \in 1..Len(out_chart.clusters) |-> out_chart.clusters[c].total_stock])

SeriesTotals ==
  SumNumbers([d \in 1..Len(out_chart.datasets) |-> SumNumbers(out_chart.datasets[d].data)])

\* every article a warehouse stocks is once in all_articles, and no stocked
\* quantity is negative
StockWellFormed ==
  \A k \in 1..Len(in_stocks_wp) :
    \A article \in DOMAIN in_stocks_wp[k].products :
      /\ in_stocks_wp[k].products[article] >= 0
      /\ Cardinality({i \in 1..Len(in_articles) : in_articles[i] = article}) = 1

\* C7 as claimed (chart totals): for any stock list and any all_articles the
\* total_stock of the clusters sum to the sum of all values of all series.
C7_ChartTotalsAsClaimed ==
  (pc = "done" /\ out_chart # None) => ClusterTotals = SeriesTotals

\* C7 as amended: the two sums are equal when every article stocked by a
\* listed warehouse occurs exactly once in all_articles and no stocked
\* quantity is negative.
C7_ChartTotals ==
  (pc = "done" /\ out_chart # None /\ StockWellFormed) => ClusterTotals = SeriesTotals

\* a well-formed stock list of three warehouses in two or more clusters and
\* three series
C7_Witness ==
  /\ pc = "done" /\ out_chart # None /\ StockWellFormed
  /\ Len(in_stocks_wp) = 3
  /\ Len(out_chart.clusters) >= 2
  /\ Len(out_chart.datasets) = 3
  /\ ClusterTotals > 0

\* АБВГДЕЁЖЗИЙКЛМНОПРСТУФХЦЧШЩЪЫЬЭЮЯ
RussianAlphabet ==
  <<1040, 1041, 1042, 1043, 1044, 1045, 1025, 1046, 1047, 1048, 1049, 1050, 1051, 1052, 1053, 1054, 1055, 1056, 1057, 1058, 1059, 1060, 1061, 1062, 1063, 1064, 1065, 1066, 1067, 1068, 1069, 1070, 1071>>

\* the place of a character in the alphabet, small or capital; 0 for a
\* character that is no letter of it
AlphabetRank(c) ==
  LET capital == IF c >= 1072 /\ c <= 1103 THEN c - 32
                 ELSE IF c = 1105 THEN 1025
                 ELSE c
  IN  IF \E r \in 1..Len(RussianAlphabet) : RussianAlphabet[r] = capital
      THEN CHOOSE r \in 1..Len(RussianAlphabet) : RussianAlphabet[r] = capital
      ELSE 0

RECURSIVE AlphabeticallyBefore(_, _)
AlphabeticallyBefore(a, b) ==
  IF a = <<>> THEN b # <<>>
  ELSE IF b = <<>> THEN FALSE
  ELSE IF AlphabetRank(a[1]) # AlphabetRank(b[1])
       THEN AlphabetRank(a[1]) < AlphabetRank(b[1])
  ELSE AlphabeticallyBefore(Tail(a), Tail(b))

\* the place of a cluster in the priority list, 0 if it is not in it
PriorityRank(cluster) ==
  LET priority_clusters == PriorityClusters(in_mp)
  IN  IF \E r \in 1..Len(priority_clusters) : priority_clusters[r] = cluster
      THEN CHOOSE r \in 1..Len(priority_clusters) : priority_clusters[r] = cluster
      ELSE 0

\* cluster a comes before cluster b: priority clusters in declared order,
\* then the others in alphabetical order
ClusterBefore(a, b) ==
  \/ PriorityRank(a) > 0 /\ PriorityRank(b) = 0
  \/ PriorityRank(a) > 0 /\ PriorityRank(b) > 0 /\ PriorityRank(a) < PriorityRank(b)
  \/ PriorityRank(a) = 0 /\ PriorityRank(b) = 0 /\ AlphabeticallyBefore(a, b)

\* C8 (label ordering): labels holds every warehouse name once; of two
\* labels of different clusters the one of the cluster that comes first
\* (priority clusters in declared order, then the others alphabetically) is
\* first, and of two labels of one cluster the one that came in first.
C8_LabelOrdering ==
  (pc = "done" /\ out_chart # None) =>
    LET labels == out_chart.labels
        clusters == out_chart.clusters
    IN  /\ Len(labels) = Len(in_stocks_wp)
        /\ \A k \in 1..Len(in_stocks_wp) :
             \E i \in 1..Len(labels) : labels[i] = in_stocks_wp[k].name
        /\ \A i, j \in 1..Len(labels) :
             i < j =>
               LET ci == get_warehouse_cluster(labels[i], in_mp)
                   cj == get_warehouse_cluster(labels[j], in_mp)
               IN  IF ci = cj
                   THEN IncomingIndex(labels[i]) < IncomingIndex(labels[j])
                   ELSE ClusterBefore(ci, cj)
        /\ \A c, d \in 1..Len(clusters) :
             c < d => ClusterBefore(clusters[c].name, clusters[d].name)

\* three warehouses that come in in the reverse of the cluster order: two
\* clusters outside the priority list, then a priority cluster
C8_Witness ==
  /\ pc = "done" /\ out_chart # None
  /\ Len(in_stocks_wp) = 3
  /\ out_chart.labels = <<in_stocks_wp[3].name, in_stocks_wp[2].name, in_stocks_wp[1].name>>
  /\ Len(out_chart.clusters) = 3
  /\ PriorityRank(out_chart.clusters[1].name) > 0
  /\ PriorityRank(out_chart.clusters[2].name) = 0
  /\ PriorityRank(out_chart.clusters[3].name) = 0

\* some listed warehouse stocks a positive quantity of the article
StockedSomewhere(article) ==
  \E k \in 1..Len(in_stocks_wp) :
    /\ article \in DOMAIN in_stocks_wp[k].products
    /\ in_stocks_wp[k].products[article] > 0

\* C20 (series inclusion): the series of the chart are those entries of
\* all_articles that some warehouse stocks in a positive quantity, one series
\* per entry, in the order of all_articles; an entry with no positive value
\* has no series.
C20_SeriesInclusion ==
  (pc = "done" /\ out_chart # None) =>
    /\ [d \in 1..Len(out_chart.datasets) |-> out_chart.datasets[d].label] =
         SelectSeq(in_articles, StockedSomewhere)
    /\ \A i \in 1..Len(in_articles) :
         (\E d \in 1..Len(out_chart.datasets) : out_chart.datasets[d].label = in_articles[i])
           <=> StockedSomewhere(in_articles[i])

\* all_articles not in sorted order, two series in its order, and an article
\* of all_articles that has no series
C20_Witness ==
  /\ pc = "done" /\ out_chart # None
  /\ Len(out_chart.datasets) >= 2
  /\ out_chart.datasets[1].label = StockArticles[1]
  /\ out_chart.datasets[2].label = StockArticles[2]
  /\ \E i \in 1..Len(in_articles) :
       \A d \in 1..Len(out_chart.datasets) : out_chart.datasets[d].label # in_articles[i]

(***************************************************************************)
(* Properties of the colorizer (SpecColor).                                *)
(***************************************************************************)
\* the entry of the pool for the article that was colored
ColoredArticle ==
  CHOOSE e \in {ColorArticles[i] : i \in 1..Len(ColorArticles)} : e.text = in_article

\* the salt of the process that made the c-th call
SaltOfCall(c) ==
  IF c = 3 THEN in_salts[2] ELSE in_salts[1]

\* C18 (colorizer determinism): two calls in one process and a call in
\* another process return the same color for every article.
C18_ColorizerDeterminism ==
  pc = "done" =>
    /\ out_colors[1] = out_colors[2]
    /\ out_colors[1] = out_colors[3]

\* C19 (colorizer precedence): an article whose upper case is a key of the
\* table gets the color of the table; otherwise one whose upper case starts
\* with FSF, SF or SM gets the color of that prefix; otherwise it gets the
\* color of the five-color palette at its hash modulo five.
C19_ColorizerPrecedence ==
  pc = "done" =>
    \A c \in 1..3 :
      LET e == ColoredArticle
          inTable == \E i \in 1..Len(COLOR_MAP) : COLOR_MAP[i].article = Upper(e.text)
      IN  /\ e.kind = "override" <=> inTable
          /\ e.kind = "override" =>
               /\ out_colors[c] = e.color
               /\ \E i \in 1..Len(COLOR_MAP) :
                    COLOR_MAP[i].article = Upper(e.text) /\ COLOR_MAP[i].color = out_colors[c]
          /\ e.kind = "prefix" =>
               /\ out_colors[c] = e.color
               /\ \E i \in 1..Len(PREFIX_COLORS) :
                    /\ StartsWith(Upper(e.text), PREFIX_COLORS[i].prefix)
                    /\ PREFIX_COLORS[i].color = out_colors[c]
          /\ e.kind = "fallback" =>
               /\ \A i \in 1..Len(PREFIX_COLORS) :
                    ~ StartsWith(Upper(e.text), PREFIX_COLORS[i].prefix)
               /\ out_colors[c] =
                    FALLBACK_COLORS[(PyHash(e.text, SaltOfCall(c)) % 5) + 1]

\* 'SF0125', a key of the table that also starts with SF, gets '#614701',
\* which is not the color of the SF prefix
C19_Witness ==
  /\ pc = "done"
  /\ in_article = <<83, 70, 48, 49, 50, 53>>
  /\ out_colors[1] = "#614701"
  /\ out_colors[1] # PREFIX_COLORS[2].color

(***************************************************************************)
(* Properties of prepare (SpecPrepare).                                    *)
(***************************************************************************)
\* the raw file of the marketplace holds a dict that is not empty
FileLoaded(m) ==
  fs[m].kind = "json" /\ DOMAIN fs[m].value # {}

\* the list under this key of the raw data of the marketplace
RawList(m, k) ==
  IF FileLoaded(m) THEN Get(fs[m].value, k, <<>>) ELSE <<>>

\* date.today() of the clock
ClockDay ==
  DateOrdinal(in_now.year, in_now.month, in_now.day)

\* the timestamp of an order or WB redemption record (date, or dateFull when
\* there is no date or an empty one; created_at for an Ozon posting) and of
\* an Ozon transaction (operation_date); empty when the record has none
RecordTimestamp(item, m, field) ==
  IF m = "ozon" THEN Get(item, field, <<>>)
  ELSE IF "date" \in DOMAIN item /\ item.date # <<>> THEN item.date
  ELSE Get(item, "dateFull", <<>>)

\* the calendar date of a timestamp as TimestampPool gives it, 0 for a text
\* that is no timestamp
DayOfText(text) ==
  IF \E t \in 1..Len(TimestampPool) : TimestampPool[t].text = text
  THEN (CHOOSE e \in {TimestampPool[t] : t \in 1..Len(TimestampPool)} : e.text = text).day
  ELSE 0

\* the rule of the window applied to a calendar date
InWindow(key, day) ==
  /\ day # 0
  /\ \/ key = "today" /\ day >= ClockDay
     \/ key = "yesterday" /\ day = ClockDay - 1
     \/ key = "days_3" /\ day >= ClockDay - 2
     \/ key = "days_7" /\ day >= ClockDay - 6
     \/ key = "days_30" /\ day >= ClockDay - 29

\* the places in a record list of the records whose date is in the window
WindowRecords(records, m, field, key) ==
  {k \in 1..Len(records) : InWindow(key, DayOfText(RecordTimestamp(records[k], m, field)))}

\* the revenue of an order record
RecordRevenue(item, m) ==
  IF m = "wb" THEN Get(item, "priceWithDisc", 0)
  ELSE PriceTimesQuantity(Get(Get(item, "financial_data", EmptyDict), "products", <<>>))

\* the warehouse of an order record
RecordWarehouse(item, m) ==
  IF m = "wb" THEN Get(item, "warehouseName", "Unknown")
  ELSE Get(Get(item, "analytics_data", EmptyDict), "warehouse_name", "Unknown")

\* the amount of a redemption record
RecordAmount(item, m) ==
  IF m = "wb" THEN Get(item, "forPay", 0)
  ELSE IF Get(item, "amount", 0) < 0 THEN 0 - item.amount ELSE Get(item, "amount", 0)

RECURSIVE SumRevenue(_, _, _, _)
\* the revenue of the orders at these places, the first k of the list
SumRevenue(records, k, places, m) ==
  IF k = 0 THEN 0
  ELSE (IF k \in places THEN RecordRevenue(records[k], m) ELSE 0)
       + SumRevenue(records, k - 1, places, m)

RECURSIVE SumAmount(_, _, _, _)
\* the amount of the redemptions at these places, the first k of the list
SumAmount(records, k, places, m) ==
  IF k = 0 THEN 0
  ELSE (IF k \in places THEN RecordAmount(records[k], m) ELSE 0)
       + SumAmount(records, k - 1, places, m)

\* the date field of the orders and of the redemptions of a marketplace
OrderDateField(m) ==
  IF m = "wb" THEN "date" ELSE "created_at"

RedemptionDateField(m) ==
  IF m = "wb" THEN "date" ELSE "operation_date"

RedemptionKey(m) ==
  IF m = "wb" THEN "raw_sales" ELSE "finance_redemptions"

\* a record of the list has no timestamp that can be read
SomeUnparsable(records, m, field) ==
  \E k \in 1..Len(records) : DayOfText(RecordTimestamp(records[k], m, field)) = 0

\* the entry of a window and a marketplace counts the orders and the
\* redemptions whose date is in the window, and no other record
EntryOfWindow(entry, m, key) ==
  LET orders      == RawList(m, "raw_orders")
      redemptions == RawList(m, RedemptionKey(m))
      counted     == WindowRecords(orders, m, OrderDateField(m), key)
      redeemed    == WindowRecords(redemptions, m, RedemptionDateField(m), key)
  IN  /\ entry.orders_count = Cardinality(counted)
      /\ entry.revenue = SumRevenue(orders, Len(orders), counted, m)
      /\ SumField(entry.sales_by_warehouse, "count") = Cardinality(counted)
      /\ SumField(entry.sales_by_region, "count") = Cardinality(counted)
      /\ \A p \in 1..Len(entry.sales_by_warehouse) :
           \E k \in counted :
             RecordWarehouse(orders[k], m) = entry.sales_by_warehouse[p].name
      /\ m = "wb" =>
           /\ SumField(entry.sales_by_product, "count") = Cardinality(counted)
           /\ \A p \in 1..Len(entry.sales_by_product) :
                \E k \in counted :
                  Get(orders[k], "supplierArticle", "Unknown")
                    = entry.sales_by_product[p].article
      /\ entry.redemptions_count = Cardinality(redeemed)
      /\ entry.redemptions_revenue = SumAmount(redemptions, Len(redemptions), redeemed, m)

\* C12 (unparsable timestamps): an order or redemption record whose timestamp
\* is absent, empty or no ISO timestamp and no YYYY-MM-DD date is in none of
\* the five windows: the run ends without an exception, and each entry of
\* each window counts, sums and buckets exactly the records of the same list
\* whose date is in the window.
C12_UnparsableTimestamps ==
  \A i \in 1..Len(runs) :
    (fs.wb.kind # "undecodable" /\ fs.ozon.kind # "undecodable") =>
      /\ ~ Raised(runs[i])
      /\ \A m \in MarketplaceTypes :
           FileLoaded(m) =>
             \A key \in PeriodKeys : EntryOfWindow(runs[i].period_data[key][m], m, key)

\* on 2024-06-10 the five WB orders, two of them with no date that can be
\* read, give one order of 100 today and two orders in 30 days, and the five
\* WB redemptions, three of them with no date, give one today
C12_Witness ==
  /\ Len(runs) = 1 /\ ~ Raised(runs[1])
  /\ in_now.month = 6
  /\ FileLoaded("wb")
  /\ Len(RawList("wb", "raw_orders")) = 5
  /\ SomeUnparsable(RawList("wb", "raw_orders"), "wb", "date")
  /\ SomeUnparsable(RawList("wb", "raw_sales"), "wb", "date")
  /\ runs[1].period_data["today"].wb.orders_count = 1
  /\ runs[1].period_data["today"].wb.revenue = 100
  /\ runs[1].period_data["days_30"].wb.orders_count = 2
  /\ runs[1].period_data["today"].wb.redemptions_count = 1
  /\ runs[1].period_data["days_30"].wb.redemptions_revenue = 100

\* the other marketplace
OtherMarketplace(m) ==
  IF m = "wb" THEN "ozon" ELSE "wb"

\* a raw file of the marketplace with stocks, orders and redemptions
PresentFile(m) ==
  IF m = "wb"
  THEN CHOOSE f \in RawFiles(WbStockParts, WbOrderParts, WbRedemptionParts) :
         f.kind = "json" /\ "total_stock_value" \in DOMAIN f.value
  ELSE CHOOSE f \in RawFiles(OzonStockParts, OzonOrderParts, OzonRedemptionParts) :
         f.kind = "json" /\ "total_stock_value" \in DOMAIN f.value

\* the status of the marketplace in the document
StatusIn(document, m) ==
  IF m = "wb" THEN document.marketplaces[1].status ELSE document.marketplaces[2].status

\* the stock total of the marketplace in the summary
StocksIn(document, m) ==
  IF m = "wb" THEN document.summary.wb_stocks ELSE document.summary.ozon_stocks

\* the last run wrote a document for the missing marketplace m as claimed
MissingInputHandled(m) ==
  LET document == runs[Len(runs)]
      other    == OtherMarketplace(m)
  IN  /\ ~ Raised(document)
      /\ StatusIn(document, m) = "No Data"
      /\ StocksIn(document, m) = 0
      /\ document.summary.total_stocks = StocksIn(document, other)
      /\ document.summary.total_sales_today = document.period_data["today"][other].revenue
      /\ \E both \in {prepare([fs EXCEPT ![m] = PresentFile(m)], in_now, salt)} :
           /\ ~ Raised(both)
           /\ document.stocks[other] = both.stocks[other]
           /\ \A key \in PeriodKeys :
                document.period_data[key][other] = both.period_data[key][other]

\* C15 (missing input): when the raw file of one marketplace is missing or
\* is not valid JSON and the other one is loaded, the run ends with a
\* document in which the marketplace has the status "No Data" and adds 0 to
\* the two totals of the summary, and the stocks and the five period entries
\* of the other marketplace are what they are with both files present.
C15_MissingInput ==
  \A m \in MarketplaceTypes :
    (/\ runs # <<>>
     /\ fs[m].kind \in {"missing", "malformed", "undecodable"}
     /\ FileLoaded(OtherMarketplace(m)))
      => MissingInputHandled(m)

\* the revenue of the 'today' entry of the marketplace, 0 when it has none
TodayRevenueIn(document, m) ==
  IF m \in DOMAIN document.period_data["today"]
  THEN document.period_data["today"][m].revenue
  ELSE 0

\* C16 (summary totals): in every document that prepare produces,
\* total_stocks is wb_stocks + ozon_stocks and total_sales_today is the
\* revenue of period_data.today.wb plus that of period_data.today.ozon, an
\* absent marketplace counting as 0.
C16_SummaryTotals ==
  \A i \in 1..Len(runs) :
    ~ Raised(runs[i]) =>
      /\ runs[i].summary.total_stocks
           = runs[i].summary.wb_stocks + runs[i].summary.ozon_stocks
      /\ runs[i].summary.total_sales_today
           = TodayRevenueIn(runs[i], "wb") + TodayRevenueIn(runs[i], "ozon")

\* both marketplaces have stocks (15 and 7) and orders of today (100 each)
C16_Witness ==
  /\ out_file # None
  /\ out_file.summary.wb_stocks = 15 /\ out_file.summary.ozon_stocks = 7
  /\ out_file.summary.total_stocks = 22
  /\ TodayRevenueIn(out_file, "wb") = 100 /\ TodayRevenueIn(out_file, "ozon") = 100
  /\ out_file.summary.total_sales_today = 200

\* C17 (idempotence): two runs of prepare, each in a process of its own, on
\* the same raw files and with the same clock write the same document.
C17_Idempotence ==
  (Len(runs) >= 2 /\ ~ Raised(runs[1]) /\ ~ Raised(runs[2])) => runs[1] = runs[2]

(***************************************************************************)
(* The name of the fallback cluster (SpecCluster).                         *)
(***************************************************************************)
\* no keyword of the table of the marketplace is in the lower-cased name
NoKeywordMatches ==
  \A i \in 1..Len(ClusterTable(in_mp)) : ~ ClusterMatches(ClusterTable(in_mp), i, in_warehouse)

\* C26 as claimed (fallback cluster name): when no keyword of the table
\* matches the warehouse name, the classifier returns the cluster 'Other'.
C26_FallbackOtherAsClaimed ==
  (pc = "done" /\ NoKeywordMatches) => out_cluster = <<79, 116, 104, 101, 114>>

\* C26 (fallback cluster name): when no keyword of the table matches the
\* warehouse name, the classifier returns the cluster 'Прочие'.
C26_FallbackName ==
  (pc = "done" /\ NoKeywordMatches) =>
    out_cluster = <<1055, 1088, 1086, 1095, 1080, 1077>>

\* 'Склад', in which the Ozon table has no keyword, is classified for Ozon
C26_Witness ==
  /\ pc = "done"
  /\ in_mp = "ozon"
  /\ in_warehouse = NameWords[7]
  /\ NoKeywordMatches
  /\ out_cluster = <<1055, 1088, 1086, 1095, 1080, 1077>>

(***************************************************************************)
(* The chart of two warehouses and one product (SpecChart).                *)
(***************************************************************************)
\* how often the article is in all_articles
TimesListed(article) ==
  Cardinality({k \in 1..Len(in_articles) : in_articles[k] = article})

\* C21 (chart scenario): for the WB stock totals of 'Коледино' with 10 and
\* 'Невинномысск' with 5 of 'SF0125', in either input order, and 'SF0125'
\* listed once, the chart has the labels 'Коледино', 'Невинномысск' and one
\* series, that of 'SF0125', with the values 10, 5 and the color '#614701'.
C21_ChartScenario ==
  ( /\ pc = "done"
    /\ in_mp = "wb"
    /\ in_stocks_wp \in ScenarioStockLists
    /\ TimesListed(<<83, 70, 48, 49, 50, 53>>) = 1 ) =>
      /\ out_chart.labels
           = << <<1050, 1086, 1083, 1077, 1076, 1080, 1085, 1086>>,
                <<1053, 1077, 1074, 1080, 1085, 1085, 1086, 1084, 1099, 1089, 1089, 1082>> >>
      /\ Len(out_chart.datasets) = 1
      /\ out_chart.datasets[1].label = <<83, 70, 48, 49, 50, 53>>
      /\ out_chart.datasets[1].data = <<10, 5>>
      /\ out_chart.datasets[1].backgroundColor = "#614701"

\* 'Невинномысск' comes first in the input and second in the chart
C21_Witness ==
  /\ pc = "done"
  /\ in_mp = "wb"
  /\ Len(in_stocks_wp) = 2
  /\ in_stocks_wp[1].name = StockWarehouseNames[4]
  /\ in_stocks_wp[1].products = (StockArticles[1] :> 5)
  /\ in_stocks_wp[2].name = StockWarehouseNames[1]
  /\ in_stocks_wp[2].products = (StockArticles[1] :> 10)
  /\ TimesListed(StockArticles[1]) = 1
  /\ out_chart.labels[1] = StockWarehouseNames[1]
  /\ out_chart.clusters[1].name = WB_CLUSTERS[1].name
  /\ Len(out_chart.clusters) = 2
  /\ out_chart.datasets[1].data = <<10, 5>>

(***************************************************************************)
(* Revenue of an aggregation (SpecAgg).                                    *)
(***************************************************************************)
RECURSIVE ContributionsOf(_, _)
\* the contributions of the first k orders: priceWithDisc of a WB order, the
\* sum of price x quantity over financial_data.products of an Ozon order (an
\* absent price is 0, an absent quantity 1)
ContributionsOf(k, m) ==
  IF k = 0 THEN 0
  ELSE RecordRevenue(in_sales[k], m) + ContributionsOf(k - 1, m)

\* C22 (per-marketplace revenue): a WB order contributes its priceWithDisc,
\* an Ozon order the sum of price x quantity over the products of its
\* financial_data, and the revenue of the aggregation is the sum of the
\* contributions of its records.
C22_PerMarketplaceRevenue ==
  pc = "done" => out_agg.revenue = ContributionsOf(Len(in_sales), in_mp)

\* an Ozon order of two products, 2 x 100 and 1 x 50, and an order with a
\* line item of 100 and no financial_data give a revenue of 250
C22_Witness ==
  /\ pc = "done"
  /\ in_mp = "ozon"
  /\ Len(in_sales) = 2
  /\ in_sales[1] = OzonItems[2]
  /\ in_sales[2] = OzonItems[3]
  /\ out_agg.revenue = 250

RECURSIVE LineItemsRevenue(_)
\* price x quantity over the line items of a products list of an Ozon order
LineItemsRevenue(prods) ==
  IF prods = <<>> THEN 0
  ELSE Get(prods[1], "price", 0) * Get(prods[1], "quantity", 1)
       + LineItemsRevenue(Tail(prods))

RECURSIVE LineItemsRevenueOf(_)
\* the same over the first k orders
LineItemsRevenueOf(k) ==
  IF k = 0 THEN 0 ELSE LineItemsRevenue(LineItems(k)) + LineItemsRevenueOf(k - 1)

OtherOrderParts(m) ==
  {o \in (IF m = "wb" THEN WbOrderParts ELSE OzonOrderParts) :
     o.raw_orders # RawList(m, "raw_orders")}

\* the raw files with the orders of the marketplace replaced by these
WithOrders(m, orders) ==
  [fs EXCEPT ![m] = [kind |-> "json", value |-> orders @@ fs[m].value]]

\* the two redemption figures of an entry
RedemptionFigures(entry) ==
  <<entry.redemptions_count, entry.redemptions_revenue>>

\* C23 (redemption figures): for each window and each marketplace that is
\* loaded, redemptions_count is the number of the redemption records of the
\* marketplace (raw_sales by date or dateFull, finance_redemptions by
\* operation_date) whose own date is in the window and redemptions_revenue
\* the sum of their amounts (forPay, |amount|); a run on the same files with
\* other order records gives the same two figures.
C23_RedemptionFigures ==
  pc = "done" =>
    \A m \in MarketplaceTypes :
      FileLoaded(m) =>
        LET redemptions == RawList(m, RedemptionKey(m))
        IN  /\ \A key \in PeriodKeys :
                 LET redeemed == WindowRecords(redemptions, m, RedemptionDateField(m), key)
                 IN  RedemptionFigures(out_file.period_data[key][m])
                       = <<Cardinality(redeemed),
                           SumAmount(redemptions, Len(redemptions), redeemed, m)>>
            /\ \A orders \in OtherOrderParts(m) :
                 \E other \in {prepare(WithOrders(m, orders), in_now, salt)} :
                   /\ ~ Raised(other)
                   /\ \A key \in PeriodKeys :
                        RedemptionFigures(other.period_data[key][m])
                          = RedemptionFigures(out_file.period_data[key][m])

\* on 2024-06-10 the Ozon postings count one order today and two in three
\* days, and the transactions of -80 today and 20 the day before one
\* redemption of 80 today and two of 100 in three days
C23_Witness ==
  /\ pc = "done"
  /\ in_now.month = 6
  /\ FileLoaded("ozon")
  /\ Len(RawList("ozon", "finance_redemptions")) = 4
  /\ Len(RawList("ozon", "raw_orders")) = 4
  /\ out_file.period_data["today"].ozon.orders_count = 1
  /\ out_file.period_data["today"].ozon.redemptions_count = 1
  /\ out_file.period_data["today"].ozon.redemptions_revenue = 80
  /\ out_file.period_data["yesterday"].ozon.redemptions_revenue = 20
  /\ out_file.period_data["days_3"].ozon.redemptions_count = 2
  /\ out_file.period_data["days_3"].ozon.redemptions_revenue = 100

(***************************************************************************)
(* The period entries of a document (SpecPrepare).                         *)
(***************************************************************************)
EntryFields ==
  {"revenue", "orders_count", "sales_by_warehouse", "sales_by_region",
   "sales_by_product", "redemptions_revenue", "redemptions_count"}

ComesFrom(filtered, places) ==
  /\ \A q \in 1..Len(filtered) : filtered[q] = in_orders[places[q]]
  /\ \A q \in 1..Len(filtered) : \A r \in 1..Len(filtered) :
       q < r => places[q] < places[r]

\* C25 (order preservation): the list of records that the filter of a period
\* gives to the aggregator is a subsequence of raw_orders: the records kept
\* are in their input order and each is there once.
C25_OrderPreservation ==
  pc = "done" =>
    \A key \in PeriodKeys :
      /\ Len(out_periods[key]) <= Len(in_orders)
      /\ \E places \in [1..Len(out_periods[key]) -> 1..Len(in_orders)] :
           ComesFrom(out_periods[key], places)

\* two orders, of the day before today and of today: both are in 'days_3',
\* in that order, and the second alone is in 'today'
C25_Witness ==
  /\ pc = "done"
  /\ Len(in_orders) = 2
  /\ CalendarDay(1) = in_today - 1
  /\ CalendarDay(2) = in_today
  /\ out_periods["days_3"] = in_orders
  /\ out_periods["today"] = <<in_orders[2]>>
  /\ out_periods["yesterday"] = <<in_orders[1]>>

(***************************************************************************)
(* The nesting of the periods (SpecPrepare).                               *)
(***************************************************************************)
\* the records of a list
RecordsOf(list) ==
  {list[k] : k \in 1..Len(list)}

\* the orders and the redemptions of the marketplace that the filter of the
\* period keeps
KeptOrders(m, key) ==
  RecordsOf(FilterSales(RawList(m, "raw_orders"), 1, PeriodOf(key), ClockDay, m))

KeptRedemptions(m, key) ==
  RecordsOf(FilterRedemptions(RawList(m, RedemptionKey(m)), 1, PeriodOf(key), ClockDay, m))

\* today, days_3, days_7, days_30 are nested, yesterday is in days_3 and
\* apart from today
Nested(Kept(_)) ==
  /\ Kept("today") \subseteq Kept("days_3")
  /\ Kept("days_3") \subseteq Kept("days_7")
  /\ Kept("days_7") \subseteq Kept("days_30")
  /\ Kept("yesterday") \subseteq Kept("days_3")
  /\ Kept("yesterday") \cap Kept("today") = {}

\* a figure of the entries does not decrease along today, days_3, days_7,
\* days_30
NonDecreasing(FigureOf(_)) ==
  /\ FigureOf("today") <= FigureOf("days_3")
  /\ FigureOf("days_3") <= FigureOf("days_7")
  /\ FigureOf("days_7") <= FigureOf("days_30")

\* C27 (window nesting): for each marketplace that is loaded, the sets of
\* records that the filters keep satisfy today within days_3 within days_7
\* within days_30, yesterday within days_3, and yesterday apart from today;
\* orders_count and redemptions_count of the document do not decrease along
\* today, days_3, days_7, days_30.
C27_WindowNesting ==
  pc = "done" =>
    \A m \in MarketplaceTypes :
      FileLoaded(m) =>
        /\ LET Orders(key) == KeptOrders(m, key) IN Nested(Orders)
        /\ LET Redemptions(key) == KeptRedemptions(m, key) IN Nested(Redemptions)
        /\ LET Count(key) == out_file.period_data[key][m].orders_count
           IN  NonDecreasing(Count)
        /\ LET Count(key) == out_file.period_data[key][m].redemptions_count
           IN  NonDecreasing(Count)

\* on 2024-06-10 the WB orders of 2024-06-10 and 2024-06-09 and the WB
\* redemptions of 2024-06-10 and 2024-06-08: one order today, one yesterday,
\* two in three days; one redemption today, none yesterday, two in three days
C27_Witness ==
  /\ pc = "done"
  /\ in_now.month = 6
  /\ FileLoaded("wb")
  /\ Cardinality(KeptOrders("wb", "today")) = 1
  /\ Cardinality(KeptOrders("wb", "yesterday")) = 1
  /\ Cardinality(KeptOrders("wb", "days_3")) = 2
  /\ out_file.period_data["today"].wb.orders_count = 1
  /\ out_file.period_data["days_3"].wb.orders_count = 2
  /\ out_file.period_data["today"].wb.redemptions_count = 1
  /\ out_file.period_data["yesterday"].wb.redemptions_count = 0
  /\ out_file.period_data["days_3"].wb.redemptions_count = 2

(***************************************************************************)
(* The index ranges of the clusters of a chart (SpecChart).                *)
(***************************************************************************)
\* C28 (cluster index tiling): in every chart the index ranges of the
\* clusters tile the positions of the labels: the first cluster starts at 0,
\* each next one at the end_index of the one before plus 1, the last one
\* ends at the number of labels minus 1; every cluster has start_index <=
\* end_index and warehouse_count = end_index - start_index + 1; no two
\* clusters have one name; every label in the range of a cluster is a
\* warehouse that the classifier puts in that cluster.
C28_ClusterTiling ==
  (pc = "done" /\ out_chart # None) =>
    LET labels == out_chart.labels
        clusters == out_chart.clusters
        n == Len(clusters)
    IN  /\ n >= 1
        /\ clusters[1].start_index = 0
        /\ \A c \in 2..n : clusters[c].start_index = clusters[c - 1].end_index + 1
        /\ clusters[n].end_index = Len(labels) - 1
        /\ \A c \in 1..n :
             /\ clusters[c].start_index <= clusters[c].end_index
             /\ clusters[c].warehouse_count
                  = clusters[c].end_index - clusters[c].start_index + 1
             /\ \A i \in clusters[c].start_index..clusters[c].end_index :
                  /\ i + 1 \in 1..Len(labels)
                  /\ get_warehouse_cluster(labels[i + 1], in_mp) = clusters[c].name
        /\ \A c, d \in 1..n : clusters[c].name = clusters[d].name => c = d

\* three warehouses, two of one cluster that do not come in next to each
\* other: a cluster of positions 0 to 1 and a cluster of position 2, or a
\* cluster of position 0 and a cluster of positions 1 to 2
C28_Witness ==
  /\ pc = "done" /\ out_chart # None
  /\ Len(in_stocks_wp) = 3
  /\ get_warehouse_cluster(in_stocks_wp[1].name, in_mp)
       = get_warehouse_cluster(in_stocks_wp[3].name, in_mp)
  /\ get_warehouse_cluster(in_stocks_wp[2].name, in_mp)
       # get_warehouse_cluster(in_stocks_wp[1].name, in_mp)
  /\ Len(out_chart.clusters) = 2
  /\ out_chart.clusters[1].start_index = 0
  /\ out_chart.clusters[2].end_index = 2
  /\ out_chart.clusters[1].warehouse_count + out_chart.clusters[2].warehouse_count = 3

(***************************************************************************)
(* The sequencing of the runner (SpecRun).                                 *)
(***************************************************************************)
\* the k-th call of subprocess.run is over
Finished(k) ==
  subprocesses[k].state # "running"

\* the calls so far are for the first scripts of the list, one call each and
\* in its order, and every call but the last is over
OneAfterTheOther ==
  /\ Len(subprocesses) <= Len(scripts)
  /\ \A k \in 1..Len(subprocesses) : subprocesses[k].script = scripts[k]
  /\ \A k \in 1..Len(subprocesses) : k < Len(subprocesses) => Finished(k)

\* every script was run and exited with return code 0
AllReturnedZero ==
  \A k \in 1..Len(scripts) :
    /\ k <= Len(subprocesses)
    /\ subprocesses[k].state = "exited"
    /\ subprocesses[k].returncode = 0

\* the process has exited: every script had its call, all calls are over,
\* and the exit code is 0 when all three returned 0 and 1 when not
ExitedAsClaimed ==
  exit_status # None =>
    /\ Len(subprocesses) = Len(scripts)
    /\ \A k \in 1..Len(subprocesses) : Finished(k)
    /\ exit_status.code = (IF AllReturnedZero THEN 0 ELSE 1)

\* C30 (runner sequencing): main runs fetch_wb_data.py, then
\* fetch_ozon_data.py, then prepare_dashboard_data.py, each once and each
\* only after the one before is over; a script is run also when an earlier
\* one failed or could not be started, so that the run always comes to its
\* end with all three run; the exit code is 0 iff each of the three exited
\* with return code 0, and 1 otherwise.
C30_RunnerSequencing ==
  /\ [](OneAfterTheOther /\ ExitedAsClaimed)
  /\ [][Len(subprocesses') > Len(subprocesses) =>
          \A k \in 1..Len(subprocesses) : Finished(k)]_vars
  /\ <>(exit_status # None)

\* fetch_wb_data.py could not be started, fetch_ozon_data.py exited with 1,
\* prepare_dashboard_data.py was run and exited with 0: the exit code is 1
C30_Witness ==
  /\ pc = "done"
  /\ exit_status = [code |-> 1]
  /\ Len(subprocesses) = 3
  /\ subprocesses[1] = [script |-> "fetch_wb_data.py", state |-> "not started"]
  /\ subprocesses[2] = [script |-> "fetch_ozon_data.py", state |-> "exited", returncode |-> 1]
  /\ subprocesses[3] = [script |-> "prepare_dashboard_data.py", state |-> "exited",
                        returncode |-> 0]

====
